---- MODULE Spec2Model ----
(***************************************************************************)
(* Model of the SillyTavern memory engine of openclaw:                     *)
(*   memory/store.ts        canonical storage of memory books and entries  *)
(*   memory/memory-index.ts per-book vector + keyword index                *)
(*   memory/vector-store.ts VectorMemoryStore (embedding + index)          *)
(*   memory/auto-extractor.ts LLM based extraction with deduplication      *)
(*                                                                         *)
(* Conventions.  A JavaScript string is a sequence of one-character        *)
(* strings.  An optional field is a set: {} when absent, {v} when present. *)
(* Scores (cosine similarity, weights) are fixed-point numbers in          *)
(* hundredths; a product of two of them is in ten-thousandths.             *)
(***************************************************************************)
EXTENDS Integers, Sequences, FiniteSets, TLC

VARIABLES
    books,     \* canonical storage: book id -> book document (one file per book)
    index,     \* book id -> index database of the book (rows, vectors, meta, handle)
    provider,  \* the vector store's embedding provider: {} or {model}
    providerCache, \* cache key -> provider instance (embedding-manager.ts)
    indexCache,    \* book id -> open index handle (memory-index.ts)
    initPromise,   \* the embedding manager's initPromise (embedding-manager.ts)
    inflight,      \* asynchronous calls suspended at an await, with their locals
    now,       \* the clock read by new Date()
    nextId,    \* supply of fresh ids (Date.now() + Math.random() suffixes)
    res        \* the last call: its name, arguments and return value

vars == <<books, index, provider, providerCache, indexCache, initPromise, inflight,
          now, nextId, res>>

(***************************************************************************)
(* Bounds of the model.                                                    *)
(***************************************************************************)
MaxBookOps == 3
MaxStoreOps == 4
MaxVecOps == 3
MaxIndexOps == 2
MaxLimit == 2

(***************************************************************************)
(* Strings.                                                                *)
(***************************************************************************)
Upper == {"C", "T"}
WordChars == {"a", "c", "e", "h", "t", "C", "T"}
Whitespace == {" "}

toLowerChar(c) == CASE c = "C" -> "c" [] c = "T" -> "t" [] OTHER -> c

toLowerCase(s) == [i \in 1..Len(s) |-> toLowerChar(s[i])]

includes(s, sub) ==
    \E i \in 0..(Len(s) - Len(sub)) : SubSeq(s, i + 1, i + Len(sub)) = sub

RECURSIVE trimStart(_)
trimStart(s) ==
    IF s # <<>> /\ Head(s) \in Whitespace THEN trimStart(Tail(s)) ELSE s

RECURSIVE trimEnd(_)
trimEnd(s) ==
    IF s # <<>> /\ s[Len(s)] \in Whitespace
    THEN trimEnd(SubSeq(s, 1, Len(s) - 1)) ELSE s

trim(s) == trimEnd(trimStart(s))

\* s.split(/\s+/): the pieces between maximal runs of whitespace, the empty
\* piece before a leading run and after a trailing run included.
RECURSIVE splitFrom(_, _, _)
splitFrom(s, i, cur) ==
    IF i > Len(s) THEN <<cur>>
    ELSE IF s[i] \in Whitespace
         THEN IF i > 1 /\ s[i - 1] \in Whitespace
              THEN splitFrom(s, i + 1, cur)
              ELSE <<cur>> \o splitFrom(s, i + 1, <<>>)
         ELSE splitFrom(s, i + 1, Append(cur, s[i]))

splitWhitespace(s) == splitFrom(s, 1, <<>>)

Range(s) == {s[i] : i \in 1..Len(s)}

\* Optional values.
None == {}
Some(v) == {v}
Get(opt) == CHOOSE v \in opt : TRUE
OrElse(opt, d) == IF opt = {} THEN d ELSE Get(opt)

(***************************************************************************)
(* Canonical storage (store.ts).                                           *)
(***************************************************************************)
DEFAULT_BOOK_SETTINGS ==
    [maxMemoriesPerRequest |-> 10, maxMemoryTokens |-> 1000,
     useKeywordRetrieval |-> TRUE, autoExtract |-> FALSE,
     minImportanceForInjection |-> 50, sortBy |-> "importance"]

\* The book documents in directory order.
bookOrder == CHOOSE s \in [1..Cardinality(DOMAIN books) -> DOMAIN books] :
                 /\ \A i, j \in DOMAIN s : i < j => s[i] < s[j]

loadAllMemoryBooks == [i \in DOMAIN bookOrder |-> books[bookOrder[i]]]

loadMemoryBook(bookId) ==
    IF bookId \in DOMAIN books THEN Some(books[bookId]) ELSE None

\* Array.prototype.find: the first element that satisfies the test.
findFirst(matching) ==
    IF matching = <<>> THEN None ELSE Some(Head(matching))

loadMemoryBookByCharacter(characterId) ==
    LET Test(b) == b.characterId = Some(characterId)
    IN  findFirst(SelectSeq(loadAllMemoryBooks, Test))

loadMemoryBookBySession(sessionKey) ==
    LET Test(b) == b.sessionKey = Some(sessionKey)
    IN  findFirst(SelectSeq(loadAllMemoryBooks, Test))

\* saveMemoryBook: the storage after writing the book's file at time t.
saveMemoryBook(bs, book, t) ==
    LET stored == [book EXCEPT !.updatedAt = t]
    IN  [id \in DOMAIN bs \cup {book.id} |-> IF id = book.id THEN stored ELSE bs[id]]

newBook(id, name, characterId, sessionKey, settings, t) ==
    [id |-> id, name |-> name, characterId |-> characterId,
     sessionKey |-> sessionKey, createdAt |-> t, updatedAt |-> t,
     entries |-> <<>>, settings |-> settings]

\* A string is truthy when it is present and not empty.
truthy(opt) == opt # None /\ Get(opt) # ""

generateMemoryBookId == nextId

\* createMemoryBook as a function of the storage: the new storage and the book.
createMemoryBook(name, characterId, sessionKey, settings) ==
    LET book == newBook(generateMemoryBookId, name, characterId, sessionKey,
                        settings, now)
        bs == saveMemoryBook(books, book, now)
    IN  [books |-> bs, book |-> bs[book.id]]

\* getOrCreateMemoryBook: character first, then session, else a new book.
getOrCreateMemoryBook(characterId, characterName, sessionKey) ==
    LET byChar == IF truthy(characterId)
                  THEN loadMemoryBookByCharacter(Get(characterId)) ELSE None
        bySess == IF truthy(sessionKey)
                  THEN loadMemoryBookBySession(Get(sessionKey)) ELSE None
        name == IF characterName # None THEN Get(characterName)
                ELSE IF sessionKey # None THEN Get(sessionKey) ELSE "Default"
    IN  IF byChar # None THEN [books |-> books, book |-> Get(byChar), created |-> FALSE]
        ELSE IF bySess # None
             THEN [books |-> books, book |-> Get(bySess), created |-> FALSE]
             ELSE [created |-> TRUE] @@
                  createMemoryBook(name, characterId, sessionKey, DEFAULT_BOOK_SETTINGS)

deleteMemoryBook(bookId) ==
    IF bookId \notin DOMAIN books
    THEN [books |-> books, ret |-> FALSE]
    ELSE [books |-> [id \in DOMAIN books \ {bookId} |-> books[id]], ret |-> TRUE]

(***************************************************************************)
(* Specification of the book operations: create, find-or-create, delete.   *)
(***************************************************************************)
CharacterIds == {None, Some(""), Some("c1")}
SessionKeys == {None, Some("s1")}
CharacterNames == {None, Some("Ann")}

InitBooks ==
    /\ books = <<>>
    /\ index = <<>>
    /\ provider = None
    /\ providerCache = <<>>
    /\ indexCache = <<>>
    /\ initPromise = None
    /\ inflight = <<>>
    /\ now = 0
    /\ nextId = 1
    /\ res = [op |-> "init"]

CreateMemoryBook ==
    \E cid \in CharacterIds, sk \in SessionKeys :
        LET r == createMemoryBook("Book", cid, sk, DEFAULT_BOOK_SETTINGS)
        IN  /\ now < MaxBookOps
            /\ books' = r.books
            /\ nextId' = nextId + 1
            /\ now' = now + 1
            /\ res' = [op |-> "createMemoryBook",
                       params |-> [characterId |-> cid, sessionKey |-> sk],
                       ret |-> r.book.id]
            /\ UNCHANGED <<index, provider, providerCache, indexCache, initPromise, inflight>>

GetOrCreateMemoryBook ==
    \E cid \in CharacterIds, cname \in CharacterNames, sk \in SessionKeys :
        LET r == getOrCreateMemoryBook(cid, cname, sk)
        IN  /\ now < MaxBookOps
            /\ books' = r.books
            /\ nextId' = IF r.created THEN nextId + 1 ELSE nextId
            /\ now' = now + 1
            /\ res' = [op |-> "getOrCreateMemoryBook",
                       params |-> [characterId |-> cid, characterName |-> cname,
                                   sessionKey |-> sk],
                       ret |-> r.book.id]
            /\ UNCHANGED <<index, provider, providerCache, indexCache, initPromise, inflight>>

DeleteMemoryBook ==
    \E bookId \in 1..nextId :
        LET r == deleteMemoryBook(bookId)
        IN  /\ now < MaxBookOps
            /\ books' = r.books
            /\ now' = now + 1
            /\ res' = [op |-> "deleteMemoryBook", params |-> [bookId |-> bookId],
                       ret |-> r.ret]
            /\ UNCHANGED <<index, provider, providerCache, indexCache, initPromise, inflight, nextId>>

NextBooks == CreateMemoryBook \/ GetOrCreateMemoryBook \/ DeleteMemoryBook

SpecBooks == InitBooks /\ [][NextBooks]_vars

\* C3: a second getOrCreateMemoryBook call with the same parameters returns the
\* book the first call returned and adds no book to storage.
C3_GetOrCreateIdempotent ==
    [][(/\ res.op = "getOrCreateMemoryBook"
        /\ res'.op = "getOrCreateMemoryBook"
        /\ res'.params = res.params)
       => (res'.ret = res.ret /\ DOMAIN books' = DOMAIN books)]_vars

\* C9: storage never holds two books with the same characterId, nor two with
\* the same sessionKey.
C9_OneBookPerKey ==
    \A a, b \in DOMAIN books :
        a # b => /\ ~(books[a].characterId # None
                      /\ books[a].characterId = books[b].characterId)
                 /\ ~(books[a].sessionKey # None
                      /\ books[a].sessionKey = books[b].sessionKey)


(***************************************************************************)
(* Memory entries (store.ts).                                              *)
(***************************************************************************)
generateMemoryId == nextId

\* A sort that leaves the array in the order it had.
unsorted(s, keyOf) ==
    s

\* The stable sort of Array.prototype.sort with comparator key(b) - key(a);
\* keyOf[i] is the sort key of s[i].  (v and key bind the two arguments, so
\* that each is evaluated once.)
stableSortDesc(s, keyOf) ==
    CHOOSE sorted \in
        {LET pos(i) == 1 + Cardinality({j \in 1..Len(v) :
                            \/ key[j] > key[i]
                            \/ (key[j] = key[i] /\ j < i)})
         IN  [k \in 1..Len(v) |-> v[CHOOSE i \in 1..Len(v) : pos(i) = k]] :
            v \in {s}, key \in {keyOf}} : TRUE

\* Array.prototype.slice(0, n), negative n counting from the end.
slice0(s, n) ==
    LET end == IF n < 0 THEN (IF Len(s) + n < 0 THEN 0 ELSE Len(s) + n)
               ELSE (IF n > Len(s) THEN Len(s) ELSE n)
    IN  SubSeq(s, 1, end)

importanceOf(entry) == OrElse(entry.importance, 50)

\* The filter of retrieval: enabled and at least the minimum importance.
passesFilterIgnoringEnabled(entry, minImportance) ==
    importanceOf(entry) >= minImportance

passesFilter(entry, minImportance) ==
    entry.enabled /\ importanceOf(entry) >= minImportance

\* addMemory: the new storage and the entry, or null for an unknown book.
\* addMemory on storage bs, the new entry taking id memoryId.
addMemoryTo(bs, memoryId, bookId, params) ==
    LET entry == [id |-> memoryId,
                  content |-> params.content,
                  createdAt |-> now,
                  lastAccessedAt |-> now,
                  accessCount |-> 0,
                  type |-> OrElse(params.type, "manual"),
                  keywords |-> params.keywords,
                  importance |-> Some(OrElse(params.importance, 50)),
                  category |-> params.category,
                  source |-> params.source,
                  enabled |-> TRUE]
    IN  IF bookId \notin DOMAIN bs THEN [books |-> bs, ret |-> None]
        ELSE [books |-> saveMemoryBook(bs,
                          [bs[bookId] EXCEPT !.entries = Append(@, entry)], now),
              ret |-> Some(entry)]

addMemory(bookId, params) == addMemoryTo(books, generateMemoryId, bookId, params)

findIndex(entries, memoryId) ==
    IF \E i \in 1..Len(entries) : entries[i].id = memoryId
    THEN CHOOSE i \in 1..Len(entries) :
             entries[i].id = memoryId /\ \A j \in 1..(i - 1) : entries[j].id # memoryId
    ELSE -1

\* {...entry, ...updates}
spread(entry, updates) == updates @@ entry

updateMemory(bookId, memoryId, updates) ==
    LET book == loadMemoryBook(bookId)
        entryIndex == findIndex(Get(book).entries, memoryId)
        merged == spread(Get(book).entries[entryIndex], updates)
    IN  IF book = None THEN [books |-> books, ret |-> None]
        ELSE IF entryIndex = -1 THEN [books |-> books, ret |-> None]
        ELSE [books |-> saveMemoryBook(books,
                          [Get(book) EXCEPT !.entries[entryIndex] = merged], now),
              ret |-> Some(merged)]

\* deleteMemory without its test for an entry that was not found:
\* entries.splice(-1, 1) removes the last entry.
deleteMemorySplicingUnfound(bookId, memoryId) ==
    LET book == loadMemoryBook(bookId)
        entries == Get(book).entries
        entryIndex == findIndex(entries, memoryId)
        spliced == IF entryIndex = -1
                   THEN SubSeq(entries, 1, Len(entries) - 1)
                   ELSE SubSeq(entries, 1, entryIndex - 1)
                        \o SubSeq(entries, entryIndex + 1, Len(entries))
    IN  IF book = None THEN [books |-> books, ret |-> FALSE]
        ELSE [books |-> saveMemoryBook(books,
                          [Get(book) EXCEPT !.entries = spliced], now),
              ret |-> TRUE]

deleteMemory(bookId, memoryId) ==
    LET book == loadMemoryBook(bookId)
        entries == Get(book).entries
        entryIndex == findIndex(entries, memoryId)
        spliced == SubSeq(entries, 1, entryIndex - 1)
                   \o SubSeq(entries, entryIndex + 1, Len(entries))
    IN  IF book = None THEN [books |-> books, ret |-> FALSE]
        ELSE IF entryIndex = -1 THEN [books |-> books, ret |-> FALSE]
        ELSE [books |-> saveMemoryBook(books,
                          [Get(book) EXCEPT !.entries = spliced], now),
              ret |-> TRUE]

\* The stop words of extractKeywords that can be spelled in the model's alphabet.
stopWords == {<<"t", "h", "e">>, <<"a">>, <<"t", "h", "a", "t">>,
              <<"e", "a", "c", "h">>}

RECURSIVE uniq(_)
uniq(s) ==
    IF s = <<>> THEN <<>>
    ELSE LET init == uniq(SubSeq(s, 1, Len(s) - 1))
         IN  IF s[Len(s)] \in Range(init) THEN init ELSE Append(init, s[Len(s)])

extractKeywords(text) ==
    LET lower == toLowerCase(text)
        replaced == [i \in 1..Len(lower) |->
                        IF lower[i] \in WordChars \cup Whitespace
                        THEN lower[i] ELSE " "]
        LongWord(w) == Len(w) > 2
        NotStop(w) == w \notin stopWords
        words == SelectSeq(splitWhitespace(replaced), LongWord)
    IN  IF text = <<>> \/ trim(text) = <<>> THEN <<>>
        ELSE uniq(SelectSeq(words, NotStop))

\* The access bookkeeping loop of retrieveMemories: every returned memory bumps
\* the first entry of the book that has its id.
RECURSIVE bumpAccess(_, _, _)
bumpAccess(entries, memories, t) ==
    IF memories = <<>> THEN entries
    ELSE LET i == findIndex(entries, Head(memories).id)
             bumped == IF i = -1 THEN entries
                       ELSE [entries EXCEPT ![i].lastAccessedAt = t,
                                            ![i].accessCount = @ + 1]
         IN  bumpAccess(bumped, Tail(memories), t)

\* retrieveMemories: the new storage and the MemoryRetrievalResult.
retrieveMemories(bookId, context, options) ==
    LET book == Get(loadMemoryBook(bookId))
        maxMemories == OrElse(options.maxMemories, book.settings.maxMemoriesPerRequest)
        minImportance == OrElse(options.minImportance,
                                book.settings.minImportanceForInjection)
        sortBy == OrElse(options.sortBy, book.settings.sortBy)
        Passes(entry) == passesFilter(entry, minImportance)
        filtered1 == SelectSeq(book.entries, Passes)
        searchKeywords == OrElse(options.keywords, extractKeywords(context))
        byKeyword == Len(searchKeywords) > 0 /\ book.settings.useKeywordRetrieval
        Matches(entry) ==
            IF entry.keywords # None /\ Len(Get(entry.keywords)) > 0
            THEN \E k \in Range(Get(entry.keywords)) :
                     \E sk \in Range(searchKeywords) :
                         includes(toLowerCase(k), toLowerCase(sk))
            ELSE \E sk \in Range(searchKeywords) :
                     includes(toLowerCase(entry.content), toLowerCase(sk))
        filtered2 == IF byKeyword THEN SelectSeq(filtered1, Matches) ELSE filtered1
        method == IF byKeyword THEN "keyword"
                  ELSE IF sortBy \in {"importance", "recency"} THEN sortBy
                  ELSE "all"
        keyOf == [i \in 1..Len(filtered2) |->
                     CASE sortBy = "importance" -> importanceOf(filtered2[i])
                       [] sortBy = "recency" -> filtered2[i].lastAccessedAt
                       [] sortBy = "accessCount" -> filtered2[i].accessCount
                       [] OTHER -> 0]
        filtered == stableSortDesc(filtered2, keyOf)
        truncated == Len(filtered) > maxMemories
        picked == slice0(filtered, maxMemories)
        entries2 == bumpAccess(book.entries, picked, now)
        memories == [i \in 1..Len(picked) |->
                        entries2[findIndex(entries2, picked[i].id)]]
    IN  IF loadMemoryBook(bookId) = None
        THEN [books |-> books,
              ret |-> [memories |-> <<>>, totalMemories |-> 0,
                       truncated |-> FALSE, method |-> "all"]]
        ELSE [books |-> saveMemoryBook(books, [book EXCEPT !.entries = entries2], now),
              ret |-> [memories |-> memories, totalMemories |-> Len(book.entries),
                       truncated |-> truncated, method |-> method]]


(***************************************************************************)
(* Specification of the keyword store: one book, its entries, retrieval    *)
(* without a vector backend.                                               *)
(***************************************************************************)
BookId == 1

sEmpty == <<>>
sCat == <<"c", "a", "t">>
sTea == <<"T", "e", "a">>
sHat == <<"h", "a", "t">>
sTheCat == <<"t", "h", "e", " ", "c", "a", "t">>
sCatBang == <<"C", "a", "t", "!">>
sTheAt == <<"t", "h", "e", " ", "a", "t">>
sTeaHat == <<"t", "e", "a", " ", "h", "a", "t">>

noParams == [type |-> None, keywords |-> None, importance |-> None,
             category |-> None, source |-> None]

AddParams ==
    { [content |-> sCat] @@ noParams,
      [content |-> sTea, importance |-> Some(150), keywords |-> Some(<<sHat>>)]
          @@ noParams,
      [content |-> sTheCat, importance |-> Some(-5)] @@ noParams }

UpdateParams ==
    { [enabled |-> FALSE],
      [importance |-> None],
      [importance |-> Some(200)],
      [accessCount |-> 0] }

noOptions == [maxMemories |-> None, minImportance |-> None, keywords |-> None,
              sortBy |-> None]

RetrieveOptions ==
    { noOptions,
      [maxMemories |-> Some(1), minImportance |-> Some(0),
       sortBy |-> Some("recency")] @@ noOptions,
      [minImportance |-> Some(100), keywords |-> Some(<<sHat>>),
       sortBy |-> Some("accessCount")] @@ noOptions,
      [maxMemories |-> Some(0), sortBy |-> Some("importance")] @@ noOptions }

Contexts == {sEmpty, sCatBang, sTheAt, sTea}

BookSettings ==
    { DEFAULT_BOOK_SETTINGS,
      [DEFAULT_BOOK_SETTINGS EXCEPT !.useKeywordRetrieval = FALSE,
                                    !.minImportanceForInjection = 0,
                                    !.maxMemoriesPerRequest = 1,
                                    !.sortBy = "recency"] }

entryIds(bookId) ==
    IF bookId \in DOMAIN books
    THEN {books[bookId].entries[i].id : i \in 1..Len(books[bookId].entries)}
    ELSE {}

InitStore ==
    /\ \E settings \in BookSettings :
           books = [id \in {BookId} |->
                       newBook(BookId, "Book", Some("c1"), None, settings, 0)]
    /\ index = <<>>
    /\ provider = None
    /\ providerCache = <<>>
    /\ indexCache = <<>>
    /\ initPromise = None
    /\ inflight = <<>>
    /\ now = 1
    /\ nextId = BookId + 1
    /\ res = [op |-> "init"]

AddMemory(maxOps) ==
    \E params \in AddParams :
        LET r == addMemory(BookId, params)
        IN  /\ now <= maxOps
            /\ books' = r.books
            /\ nextId' = nextId + 1
            /\ now' = now + 1
            /\ res' = [op |-> "addMemory", params |-> params, ret |-> r.ret]
            /\ UNCHANGED <<index, provider, providerCache, indexCache, initPromise, inflight>>

UpdateMemory(maxOps) ==
    \E memoryId \in entryIds(BookId) \cup {0}, updates \in UpdateParams :
        LET r == updateMemory(BookId, memoryId, updates)
        IN  /\ now <= maxOps
            /\ books' = r.books
            /\ now' = now + 1
            /\ res' = [op |-> "updateMemory",
                       params |-> [memoryId |-> memoryId, updates |-> updates],
                       ret |-> r.ret]
            /\ UNCHANGED <<index, provider, providerCache, indexCache, initPromise, inflight, nextId>>

DeleteMemory(maxOps) ==
    \E memoryId \in entryIds(BookId) \cup {0} :
        LET r == deleteMemory(BookId, memoryId)
        IN  /\ now <= maxOps
            /\ books' = r.books
            /\ now' = now + 1
            /\ res' = [op |-> "deleteMemory", params |-> [memoryId |-> memoryId],
                       ret |-> r.ret]
            /\ UNCHANGED <<index, provider, providerCache, indexCache, initPromise, inflight, nextId>>

RetrieveMemories(maxOps) ==
    \E context \in Contexts, options \in RetrieveOptions :
        LET r == retrieveMemories(BookId, context, options)
        IN  /\ now <= maxOps
            /\ books' = r.books
            /\ now' = now + 1
            /\ res' = [op |-> "retrieveMemories",
                       params |-> [bookId |-> BookId, context |-> context,
                                   options |-> options],
                       ret |-> r.ret]
            /\ UNCHANGED <<index, provider, providerCache, indexCache, initPromise, inflight, nextId>>

NextStore ==
    \/ AddMemory(MaxStoreOps)
    \/ UpdateMemory(MaxStoreOps)
    \/ DeleteMemory(MaxStoreOps)
    \/ RetrieveMemories(MaxStoreOps)

SpecStore == InitStore /\ [][NextStore]_vars

\* The minimum importance in effect for a retrieval with these options.
effectiveMinImportance(bookId, options) ==
    IF options.minImportance # None THEN Get(options.minImportance)
    ELSE books[bookId].settings.minImportanceForInjection

\* C1: retrieveMemories never returns a disabled entry nor an entry whose
\* importance (50 when unset) is below the effective minimum importance.
C1_RetrieveFiltersDisabledAndLowImportance ==
    res.op = "retrieveMemories" =>
        \A i \in 1..Len(res.ret.memories) :
            LET m == res.ret.memories[i]
            IN  /\ m.enabled
                /\ (IF m.importance = None THEN 50 ELSE Get(m.importance))
                       >= effectiveMinImportance(res.params.bookId, res.params.options)

\* C1 witness: a retrieval returned an entry and left out a disabled entry of
\* the book whose importance alone would have passed.
C1_Witness ==
    /\ res.op = "retrieveMemories"
    /\ Len(res.ret.memories) > 0
    /\ \E i \in 1..Len(books[BookId].entries) :
           LET e == books[BookId].entries[i]
           IN  /\ ~e.enabled
               /\ (IF e.importance = None THEN 50 ELSE Get(e.importance))
                      >= effectiveMinImportance(BookId, res.params.options)
               /\ \A k \in 1..Len(res.ret.memories) : res.ret.memories[k].id # e.id

\* C10: every entry of canonical storage has importance within 0..100.
C10_ImportanceClamped ==
    \A b \in DOMAIN books :
        \A i \in 1..Len(books[b].entries) :
            /\ importanceOf(books[b].entries[i]) >= 0
            /\ importanceOf(books[b].entries[i]) <= 100


(***************************************************************************)
(* Embeddings (embedding-manager.ts).  A vector is a tuple of integers; a  *)
(* normalized vector has magnitude 5, which stands for 1.  Similarities    *)
(* and scores are in ten-thousandths, weights in hundredths.               *)
(***************************************************************************)
isqrt(n) == CHOOSE r \in 0..n : r * r <= n /\ n < (r + 1) * (r + 1)

RECURSIVE dot(_, _)
dot(a, b) == IF a = <<>> THEN 0 ELSE Head(a) * Head(b) + dot(Tail(a), Tail(b))

cosineSimilarity(a, b) ==
    IF Len(a) # Len(b) THEN 0
    ELSE LET magnitude == isqrt(dot(a, a)) * isqrt(dot(b, b))
         IN  IF magnitude = 0 THEN 0 ELSE (dot(a, b) * 10000) \div magnitude

weighted(score, weight) == (score * weight) \div 100

(***************************************************************************)
(* The per-book index (memory-index.ts): the rows of table entries in      *)
(* rowid order, table vectors keyed by entry id, table meta, the handle's  *)
(* in-memory model field, and whether the runtime has a full-text engine.  *)
(***************************************************************************)
emptyIndex(hasFts) ==
    [rows |-> <<>>, vectors |-> <<>>, metaModel |-> None, lastUpdated |-> None,
     model |-> None, hasFts |-> hasFts]

rowIds(idx) == {idx.rows[i].id : i \in 1..Len(idx.rows)}

\* The INSERT ... ON CONFLICT(id) DO UPDATE on table entries: a new row at the
\* end, or the row of that id rewritten in place, created_at kept.
upsertRow(rows, entry) ==
    LET row == [entry EXCEPT !.importance = Some(importanceOf(entry))]
        i == findIndex(rows, entry.id)
    IN  IF i = -1 THEN Append(rows, row)
        ELSE [rows EXCEPT ![i] = [row EXCEPT !.createdAt = rows[i].createdAt]]

upsertVector(vectors, entryId, embedding, model, t) ==
    [id \in DOMAIN vectors \cup {entryId} |->
        IF id = entryId
        THEN [embedding |-> embedding, model |-> model, createdAt |-> t]
        ELSE vectors[id]]

\* indexEntry: the index after the call and whether it threw.  failAt names the
\* statement that fails: "none", "entries" (the row is rejected) or "vectors"
\* (the vector write fails after the row was written).
indexEntry(idx, entry, embedding, model, t, failAt) ==
    LET withRow == [idx EXCEPT !.rows = upsertRow(@, entry)]
        withVec == [withRow EXCEPT
                       !.vectors = upsertVector(@, entry.id, embedding, model, t)]
    IN  IF failAt = "entries" THEN [idx |-> idx, threw |-> TRUE]
        ELSE IF failAt = "vectors" THEN [idx |-> withRow, threw |-> TRUE]
        ELSE [idx |-> [withVec EXCEPT
                          !.model = Some(model),
                          !.metaModel = IF idx.model # Some(model)
                                        THEN Some(model) ELSE @,
                          !.lastUpdated = Some(t)],
              threw |-> FALSE]

\* The loop of indexBatch inside the transaction: stops at the first element
\* that throws.
RECURSIVE indexAll(_, _, _, _)
indexAll(idx, batch, model, t) ==
    IF batch = <<>> THEN [idx |-> idx, threw |-> FALSE]
    ELSE LET r == indexEntry(idx, Head(batch).entry, Head(batch).embedding,
                             model, t, Head(batch).failAt)
         IN  IF r.threw THEN r ELSE indexAll(r.idx, Tail(batch), model, t)

\* ROLLBACK restores the database tables; the handle's fields are not part of
\* the database.
rollback(before, after) ==
    [before EXCEPT !.model = after.model]

indexBatch(idx, batch, model, t) ==
    LET r == indexAll(idx, batch, model, t)
    IN  IF r.threw THEN [idx |-> rollback(idx, r.idx), threw |-> TRUE]
        ELSE r

removeEntry(idx, entryId) ==
    LET Other(row) == row.id # entryId
    IN  [idx EXCEPT !.rows = SelectSeq(@, Other),
                    !.vectors = [id \in DOMAIN @ \ {entryId} |-> @[id]]]

status(idx) ==
    [totalEntries |-> Len(idx.rows),
     indexedEntries |-> Cardinality(DOMAIN idx.vectors),
     model |-> idx.model,
     lastUpdated |-> idx.lastUpdated]

getAllEntries(idx) == idx.rows

getEntriesNeedingEmbedding(idx, model) ==
    LET Needs(row) == row.id \notin DOMAIN idx.vectors
                      \/ idx.vectors[row.id].model # model
    IN  SelectSeq(idx.rows, Needs)


(***************************************************************************)
(* Searches of the index (memory-index.ts).  A search result is a record   *)
(* [entry, score, matchType].                                              *)
(***************************************************************************)
scoreKeys(results) == [i \in 1..Len(results) |-> results[i].score]

\* The rows of entries JOIN vectors WHERE enabled = 1: every one of them has its
\* stored vector compared with the query.
joinedRows(idx) ==
    LET Joined(row) == row.enabled /\ row.id \in DOMAIN idx.vectors
    IN  SelectSeq(idx.rows, Joined)

searchVector(idx, queryEmbedding, limit, minScore) ==
    LET rows == joinedRows(idx)
        all == [i \in 1..Len(rows) |->
                   [entry |-> rows[i],
                    score |-> cosineSimilarity(queryEmbedding,
                                               idx.vectors[rows[i].id].embedding),
                    matchType |-> "vector"]]
        Enough(r) == r.score >= minScore
        scored == SelectSeq(all, Enough)
    IN  slice0(stableSortDesc(scored, scoreKeys(scored)), limit)

\* The tokens of the full-text engine: lower-cased runs of word characters.
tokens(text) ==
    LET lower == toLowerCase(text)
        replaced == [i \in 1..Len(lower) |->
                        IF lower[i] \in WordChars THEN lower[i] ELSE " "]
        NonEmpty(w) == w # <<>>
    IN  SelectSeq(splitWhitespace(replaced), NonEmpty)

\* entries_fts MATCH '"k1" OR "k2" ...': a phrase matches a column that holds
\* its tokens consecutively.
ftsMatch(row, keywords) ==
    \E k \in Range(keywords) :
        /\ tokens(k) # <<>>
        /\ \/ includes(tokens(row.content), tokens(k))
           \/ /\ row.keywords # None
              /\ \E w \in Range(Get(row.keywords)) : includes(tokens(w), tokens(k))

\* content LIKE '%k%' OR keywords LIKE '%k%', case-insensitive.
likeMatch(row, keywords) ==
    \E k \in Range(keywords) :
        \/ includes(toLowerCase(row.content), k)
        \/ /\ row.keywords # None
           /\ \E w \in Range(Get(row.keywords)) : includes(toLowerCase(w), k)

\* searchKeyword; rank[id] is the bm25 rank the full-text engine gives a matching
\* row (negative, better matches lower), used when the engine is present.
searchKeyword(idx, query, limit, rank) ==
    LET Long(w) == Len(w) > 2
        keywords == SelectSeq(splitWhitespace(toLowerCase(query)), Long)
        FtsHit(row) == row.enabled /\ ftsMatch(row, keywords)
        LikeHit(row) == row.enabled /\ likeMatch(row, keywords)
        ftsRows == SelectSeq(idx.rows, FtsHit)
        byRank == stableSortDesc(ftsRows,
                                 [i \in 1..Len(ftsRows) |-> 0 - rank[ftsRows[i].id]])
        rows == IF idx.hasFts THEN slice0(byRank, limit)
                ELSE slice0(SelectSeq(idx.rows, LikeHit), limit)
        scoreOf(row) == IF idx.hasFts /\ rank[row.id] # 0
                        THEN (IF rank[row.id] < 0 THEN 0 - rank[row.id]
                              ELSE rank[row.id])
                        ELSE 5000
    IN  IF Len(keywords) = 0 THEN <<>>
        ELSE [i \in 1..Len(rows) |->
                 [entry |-> rows[i], score |-> scoreOf(rows[i]),
                  matchType |-> "keyword"]]

positionOf(results, entryId) ==
    IF \E i \in 1..Len(results) : results[i].entry.id = entryId
    THEN CHOOSE i \in 1..Len(results) : results[i].entry.id = entryId
    ELSE 0

\* The merge of one keyword result into the map of hybridSearch.
mergeKeywordReplacingScore(merged, result, keywordWeight) ==
    LET i == positionOf(merged, result.entry.id)
    IN  IF i # 0
        THEN [merged EXCEPT ![i].score = weighted(result.score, keywordWeight),
                            ![i].matchType = "hybrid"]
        ELSE Append(merged, [entry |-> result.entry,
                             score |-> weighted(result.score, keywordWeight),
                             matchType |-> "keyword"])

mergeKeyword(merged, result, keywordWeight) ==
    LET i == positionOf(merged, result.entry.id)
    IN  IF i # 0
        THEN [merged EXCEPT ![i].score = @ + weighted(result.score, keywordWeight),
                            ![i].matchType = "hybrid"]
        ELSE Append(merged, [entry |-> result.entry,
                             score |-> weighted(result.score, keywordWeight),
                             matchType |-> "keyword"])

RECURSIVE mergeAll(_, _, _)
mergeAll(merged, keywordResults, keywordWeight) ==
    IF keywordResults = <<>> THEN merged
    ELSE mergeAll(mergeKeyword(merged, Head(keywordResults), keywordWeight),
                  Tail(keywordResults), keywordWeight)

hybridSearch(idx, queryEmbedding, queryText, limit, options, rank) ==
    LET vectorWeight == options.vectorWeight
        keywordWeight == options.keywordWeight
        minScore == options.minScore
        vectorResults == searchVector(idx, queryEmbedding, limit * 2, 0)
        keywordResults == searchKeyword(idx, queryText, limit * 2, rank)
        fromVector == [i \in 1..Len(vectorResults) |->
                          [entry |-> vectorResults[i].entry,
                           score |-> weighted(vectorResults[i].score, vectorWeight),
                           matchType |-> "vector"]]
        merged == mergeAll(fromVector, keywordResults, keywordWeight)
        Enough(r) == r.score >= minScore
        results == SelectSeq(merged, Enough)
    IN  slice0(stableSortDesc(results, scoreKeys(results)), limit)

(***************************************************************************)
(* Specification of the index writes: indexEntry, indexBatch, removeEntry  *)
(* on the index of one book.                                               *)
(***************************************************************************)
mkEntry(id, content, keywords, importance, enabled) ==
    [id |-> id, content |-> content, createdAt |-> 0, lastAccessedAt |-> 0,
     accessCount |-> 0, type |-> "manual", keywords |-> keywords,
     importance |-> importance, category |-> None, source |-> None,
     enabled |-> enabled]

Models == {"m1", "m2"}

\* Entries with the vectors a backend returned for them.
Items ==
    { [entry |-> mkEntry(11, sCat, None, Some(50), TRUE), embedding |-> <<5, 0>>],
      [entry |-> mkEntry(12, sTeaHat, Some(<<sTea>>), Some(80), TRUE),
       embedding |-> <<4, 3>>],
      [entry |-> mkEntry(13, sTheCat, None, Some(50), FALSE),
       embedding |-> <<0, 5>>],
      [entry |-> mkEntry(14, sHat, None, Some(50), TRUE), embedding |-> <<3, 4>>] }

FailPoints == {"none", "entries", "vectors"}

\* The batches: sequences of one, two or three distinct items.
itemOf(id) == CHOOSE item \in Items : item.entry.id = id

Batches ==
    { <<itemOf(11)>>, <<itemOf(12), itemOf(13)>>, <<itemOf(13), itemOf(11)>>,
      <<itemOf(11), itemOf(12), itemOf(14)>> }

withFailure(batch, k, failAt) ==
    [i \in 1..Len(batch) |->
        batch[i] @@ [failAt |-> IF i = k THEN failAt ELSE "none"]]

InitIndex ==
    /\ books = <<>>
    /\ \E hasFts \in BOOLEAN : index = [id \in {BookId} |-> emptyIndex(hasFts)]
    /\ provider = None
    /\ providerCache = <<>>
    /\ indexCache = <<>>
    /\ initPromise = None
    /\ inflight = <<>>
    /\ now = 1
    /\ nextId = 1
    /\ res = [op |-> "init"]

IndexEntry ==
    \E item \in Items, model \in Models, failAt \in FailPoints :
        LET r == indexEntry(index[BookId], item.entry, item.embedding, model,
                            now, failAt)
        IN  /\ now <= MaxIndexOps
            /\ index' = [index EXCEPT ![BookId] = r.idx]
            /\ now' = now + 1
            /\ res' = [op |-> "indexEntry", threw |-> r.threw]
            /\ UNCHANGED <<books, provider, providerCache, indexCache, initPromise, inflight, nextId>>

IndexBatch ==
    \E b \in Batches, k \in 0..3, failAt \in FailPoints \ {"none"},
       model \in Models :
        LET batch == withFailure(b, k, failAt)
            r == indexBatch(index[BookId], batch, model, now)
        IN  /\ now <= MaxIndexOps
            /\ k <= Len(b)
            /\ index' = [index EXCEPT ![BookId] = r.idx]
            /\ now' = now + 1
            /\ res' = [op |-> "indexBatch", batch |-> batch, model |-> model,
                       threw |-> r.threw]
            /\ UNCHANGED <<books, provider, providerCache, indexCache, initPromise, inflight, nextId>>

RemoveEntry ==
    \E entryId \in {item.entry.id : item \in Items} :
        /\ now <= MaxIndexOps
        /\ index' = [index EXCEPT ![BookId] = removeEntry(@, entryId)]
        /\ now' = now + 1
        /\ res' = [op |-> "removeEntry", entryId |-> entryId]
        /\ UNCHANGED <<books, provider, providerCache, indexCache, initPromise, inflight, nextId>>

NextIndex == IndexEntry \/ IndexBatch \/ RemoveEntry

SpecIndex == InitIndex /\ [][NextIndex]_vars

\* C6: indexBatch is all-or-nothing.  A batch with a failing element raises the
\* error and leaves rows, vectors and everything status() reports as before the
\* batch; a batch without a failing element makes every element visible.
C6_IndexBatchAllOrNothing ==
    [][res'.op = "indexBatch" =>
          IF \E i \in 1..Len(res'.batch) : res'.batch[i].failAt # "none"
          THEN /\ res'.threw
               /\ index'[BookId].rows = index[BookId].rows
               /\ index'[BookId].vectors = index[BookId].vectors
               /\ status(index'[BookId]) = status(index[BookId])
          ELSE /\ ~res'.threw
               /\ \A i \in 1..Len(res'.batch) :
                      /\ res'.batch[i].entry.id \in rowIds(index'[BookId])
                      /\ res'.batch[i].entry.id \in DOMAIN index'[BookId].vectors]_vars


(***************************************************************************)
(* Specification of the searches: an index holding a drawn set of items,   *)
(* queried once by searchVector, searchKeyword or hybridSearch.            *)
(***************************************************************************)
QueryEmbeddings == {<<5, 0>>, <<3, 4>>, <<-5, 0>>, <<5>>}
QueryTexts == {sCat, sTeaHat, sTheAt}
ScoreFloors == {0, 3000, 8500}
Weights == {[vector |-> 70, keyword |-> 30], [vector |-> 50, keyword |-> 100]}

\* Outcomes of bm25 for the rows of the index.
RankFns ==
    { [id \in 1..14 |-> -2000],
      [id \in 1..14 |-> IF id = 11 THEN -12000 ELSE -2000],
      [id \in 1..14 |-> IF id = 12 THEN 0 ELSE -12000] }

ranksFor(idx) == IF idx.hasFts THEN RankFns ELSE {[id \in 1..14 |-> 0]}

InitSearch ==
    /\ books = <<>>
    /\ \E hasFts \in BOOLEAN, b \in Batches \cup {<<>>} :
           index = [id \in {BookId} |->
                       indexBatch(emptyIndex(hasFts), withFailure(b, 0, "none"),
                                  "m1", 0).idx]
    /\ provider = None
    /\ providerCache = <<>>
    /\ indexCache = <<>>
    /\ initPromise = None
    /\ inflight = <<>>
    /\ now = 1
    /\ nextId = 1
    /\ res = [op |-> "init"]

SearchVector ==
    \E q \in QueryEmbeddings, limit \in 0..MaxLimit, minScore \in ScoreFloors :
        /\ res.op = "init"
        /\ res' = [op |-> "searchVector",
                   ret |-> searchVector(index[BookId], q, limit, minScore)]
        /\ UNCHANGED <<books, index, provider, providerCache, indexCache, initPromise, inflight, now, nextId>>

SearchKeyword ==
    \E text \in QueryTexts, limit \in 0..MaxLimit, rank \in ranksFor(index[BookId]) :
        /\ res.op = "init"
        /\ res' = [op |-> "searchKeyword",
                   ret |-> searchKeyword(index[BookId], text, limit, rank)]
        /\ UNCHANGED <<books, index, provider, providerCache, indexCache, initPromise, inflight, now, nextId>>

HybridSearch ==
    \E q \in QueryEmbeddings, text \in QueryTexts, limit \in 0..MaxLimit,
       w \in Weights, minScore \in ScoreFloors, rank \in ranksFor(index[BookId]) :
        /\ res.op = "init"
        /\ res' = [op |-> "hybridSearch",
                   params |-> [queryEmbedding |-> q, queryText |-> text,
                               limit |-> limit, vectorWeight |-> w.vector,
                               keywordWeight |-> w.keyword, minScore |-> minScore,
                               rank |-> rank],
                   ret |-> hybridSearch(index[BookId], q, text, limit,
                                        [vectorWeight |-> w.vector,
                                         keywordWeight |-> w.keyword,
                                         minScore |-> minScore], rank)]
        /\ UNCHANGED <<books, index, provider, providerCache, indexCache, initPromise, inflight, now, nextId>>

NextSearch == SearchVector \/ SearchKeyword \/ HybridSearch

SpecSearch == InitSearch /\ [][NextSearch]_vars

\* The component score an entry has in a result list, 0 when it is not in it.
componentScore(results, entryId) ==
    IF positionOf(results, entryId) = 0 THEN 0
    ELSE results[positionOf(results, entryId)].score

\* C8: every result of hybridSearch is tagged by the lists it occurs in (vector
\* list, keyword list, or both: hybrid) and scored with the weighted sum of its
\* component scores; ids are distinct, scores are at least minScore and
\* non-increasing, and at most limit results are returned.
C8_HybridFusion ==
    res.op = "hybridSearch" =>
        LET p == res.params
            out == res.ret
            V == searchVector(index[BookId], p.queryEmbedding, p.limit * 2, 0)
            K == searchKeyword(index[BookId], p.queryText, p.limit * 2, p.rank)
            inV(id) == \E i \in 1..Len(V) : V[i].entry.id = id
            inK(id) == \E i \in 1..Len(K) : K[i].entry.id = id
        IN  /\ Len(out) <= p.limit
            /\ \A i, j \in 1..Len(out) :
                   /\ (i # j => out[i].entry.id # out[j].entry.id)
                   /\ (i < j => out[i].score >= out[j].score)
            /\ \A i \in 1..Len(out) :
                   LET id == out[i].entry.id
                   IN  /\ out[i].score >= p.minScore
                       /\ inV(id) \/ inK(id)
                       /\ out[i].matchType =
                              (IF inV(id) /\ inK(id) THEN "hybrid"
                               ELSE IF inV(id) THEN "vector" ELSE "keyword")
                       /\ out[i].score =
                              weighted(componentScore(V, id), p.vectorWeight)
                              + weighted(componentScore(K, id), p.keywordWeight)

\* C8 witness: one hybridSearch returned a hybrid result and a single-method
\* result while limit cut the merged list.
C8_Witness ==
    /\ res.op = "hybridSearch"
    /\ \E i, j \in 1..Len(res.ret) :
           /\ res.ret[i].matchType = "hybrid"
           /\ res.ret[j].matchType \in {"vector", "keyword"}
    /\ res.params.minScore > 0
    /\ Len(res.ret) = res.params.limit
    /\ Len(searchVector(index[BookId], res.params.queryEmbedding,
                        res.params.limit * 2, 0)) > res.params.limit


(***************************************************************************)
(* The vector store (vector-store.ts) over the per-book indexes, and the   *)
(* embedding provider.  provider is None when no provider is configured,   *)
(* else Some(model).  embedFails says that the provider's call throws.     *)
(***************************************************************************)
swap(v) == [i \in 1..Len(v) |-> v[Len(v) + 1 - i]]

\* What the provider returns for a text: model "m1" places texts in one space,
\* model "m2" in another of the same dimension.
Embed(model, text) ==
    LET base == CASE text \in {sCat, sCatBang} -> <<5, 0>>
                  [] text \in {sTheCat, sTheAt} -> <<4, 3>>
                  [] text \in {sTeaHat, sHat} -> <<3, 4>>
                  [] OTHER -> <<0, 5>>
    IN  IF model = "m1" THEN base ELSE swap(base)

\* provider.embedBatch(texts): the backend's vectors, one per text, in order.
providerEmbedBatch(model, texts) ==
    [k \in 1..Len(texts) |-> Embed(model, texts[k])]

isBlank(t) ==
    Len(trim(t)) = 0

isZeroLength(t) ==
    Len(t) = 0

\* The filter without its trim: only zero-length texts are dropped.
nonEmptyTextsUntrimmed(texts) ==
    SelectSeq(texts, LAMBDA t : ~isZeroLength(t))

\* texts.filter((t) => t.trim().length > 0)
nonEmptyTexts(texts) ==
    SelectSeq(texts, LAMBDA t : ~isBlank(t))

\* texts.map((t) => t.trim().length === 0 ? [] : embeddings[embeddingIndex++])
RECURSIVE mapBack(_, _, _)
mapBack(texts, embeddings, embeddingIndex) ==
    IF texts = <<>> THEN <<>>
    ELSE IF isBlank(Head(texts))
    THEN <<(<<>>)>> \o mapBack(Tail(texts), embeddings, embeddingIndex)
    ELSE <<embeddings[embeddingIndex]>> \o mapBack(Tail(texts), embeddings, embeddingIndex + 1)

\* SillyTavernEmbeddingManager.embedBatch with the manager's provider being
\* current: what it returns or that it threw, and the batches it handed to
\* the backend (sent).  backendFails: the backend's request throws.
managerEmbedBatch(current, texts, backendFails) ==
    IF Len(texts) = 0
    THEN [threw |-> FALSE, ret |-> <<>>, sent |-> <<>>]
    ELSE IF current = None
    THEN [threw |-> TRUE, ret |-> <<>>, sent |-> <<>>]
    ELSE CHOOSE out \in
            { IF Len(nonEmpty) = 0
              THEN [threw |-> FALSE, ret |-> [i \in 1..Len(texts) |-> <<>>], sent |-> <<>>]
              ELSE IF backendFails
              THEN [threw |-> TRUE, ret |-> <<>>, sent |-> <<nonEmpty>>]
              ELSE [threw |-> FALSE,
                    ret   |-> mapBack(texts, providerEmbedBatch(Get(current), nonEmpty), 1),
                    sent  |-> <<nonEmpty>>]
              : nonEmpty \in {nonEmptyTexts(texts)} } : TRUE

embedBatch(model, texts) ==
    managerEmbedBatch(Some(model), texts, FALSE).ret

isAvailable == provider # None

providerModel == Get(provider)

getMemoryIndex(indexes, bookId) ==
    IF bookId \in DOMAIN indexes THEN indexes[bookId]
    ELSE emptyIndex(\E b \in DOMAIN indexes : indexes[b].hasFts)

putIndex(indexes, bookId, idx) ==
    [id \in DOMAIN indexes \cup {bookId} |->
        IF id = bookId THEN idx ELSE indexes[id]]

\* addEntry; failAt names the statement of indexEntry that throws, if any.  The
\* error of the embedding call or of indexEntry is caught and logged.
addEntry(indexes, bookId, entry, embedFails, failAt) ==
    IF ~isAvailable \/ embedFails THEN indexes
    ELSE putIndex(indexes, bookId,
                  indexEntry(getMemoryIndex(indexes, bookId), entry,
                             Embed(providerModel, entry.content), providerModel,
                             now, failAt).idx)

addEntries(indexes, bookId, entries, embedFails) ==
    LET contents == [i \in 1..Len(entries) |-> entries[i].content]
        embeddings == embedBatch(providerModel, contents)
        all == [i \in 1..Len(entries) |->
                   [entry |-> entries[i], embedding |-> embeddings[i],
                    failAt |-> "none"]]
        Embedded(item) == Len(item.embedding) > 0
        batch == SelectSeq(all, Embedded)
    IN  IF ~isAvailable \/ Len(entries) = 0 \/ embedFails THEN indexes
        ELSE putIndex(indexes, bookId,
                      indexBatch(getMemoryIndex(indexes, bookId), batch,
                                 providerModel, now).idx)

vectorStoreRemoveEntry(indexes, bookId, entryId) ==
    putIndex(indexes, bookId, removeEntry(getMemoryIndex(indexes, bookId), entryId))

noSearchOptions == [maxResults |-> None, minScore |-> None, useHybrid |-> None]

search(indexes, bookId, query, options, embedFails, rank) ==
    LET maxResults == OrElse(options.maxResults, 10)
        minScore == OrElse(options.minScore, 3000)
        useHybrid == OrElse(options.useHybrid, TRUE)
        idx == getMemoryIndex(indexes, bookId)
        queryEmbedding == Embed(providerModel, query)
    IN  IF ~isAvailable \/ embedFails THEN searchKeyword(idx, query, maxResults, rank)
        ELSE IF useHybrid
        THEN hybridSearch(idx, queryEmbedding, query, maxResults,
                          [vectorWeight |-> 70, keywordWeight |-> 30,
                           minScore |-> minScore], rank)
        ELSE searchVector(idx, queryEmbedding, maxResults, minScore)

\* The entries syncBook hands to addEntries: the index's own rows that lack a
\* vector of this model, then the book's entries that have no row.
toIndex(idx, book, model) ==
    LET needsEmbedding == getEntriesNeedingEmbedding(idx, model)
        indexedIds == rowIds(idx)
        Missing(e) == e.id \notin indexedIds
    IN  needsEmbedding \o SelectSeq(book.entries, Missing)

syncBook(indexes, book, embedFails) ==
    IF ~isAvailable THEN indexes
    ELSE LET entries == toIndex(getMemoryIndex(indexes, book.id), book, providerModel)
         IN  IF Len(entries) = 0 THEN indexes
             ELSE addEntries(indexes, book.id, entries, embedFails)

(***************************************************************************)
(* Vector integration of the store (store.ts) and the LLM auto-extractor   *)
(* (auto-extractor.ts).                                                    *)
(***************************************************************************)
noVectorOptions == [maxMemories |-> None, minImportance |-> None,
                    minScore |-> None, useHybrid |-> None]

\* The part of retrieveMemoriesWithVector that follows a search that returned
\* results: filter, slice, access bookkeeping, save.
retrieveFromResults(bookId, options, results) ==
    LET book == Get(loadMemoryBook(bookId))
        maxMemories == OrElse(options.maxMemories, book.settings.maxMemoriesPerRequest)
        minImportance == OrElse(options.minImportance,
                                book.settings.minImportanceForInjection)
        useHybrid == OrElse(options.useHybrid, TRUE)
        Passes(r) == passesFilter(r.entry, minImportance)
        filtered == SelectSeq(results, Passes)
        picked == slice0(filtered, maxMemories)
        memories == [i \in 1..Len(picked) |-> picked[i].entry]
        scores == [i \in 1..Len(picked) |-> picked[i].score]
        entries2 == bumpAccess(book.entries, memories, now)
    IN  [books |-> saveMemoryBook(books, [book EXCEPT !.entries = entries2], now),
         ret |-> [memories |-> memories, totalMemories |-> Len(book.entries),
                  truncated |-> Len(filtered) > maxMemories,
                  method |-> IF useHybrid THEN "hybrid" ELSE "vector",
                  vectorSearchUsed |-> TRUE, scores |-> scores]]

\* retrieveMemoriesWithVector: the new storage and the VectorRetrievalResult.
\* indexFails says that the queries of the index database throw: search then
\* throws out of its own keyword fallback and the catch of this function runs.
retrieveMemoriesWithVector(bookId, context, options, embedFails, indexFails, rank) ==
    LET book == Get(loadMemoryBook(bookId))
        maxMemories == OrElse(options.maxMemories, book.settings.maxMemoriesPerRequest)
        minImportance == OrElse(options.minImportance,
                                book.settings.minImportanceForInjection)
        minScore == OrElse(options.minScore, 3000)
        useHybrid == OrElse(options.useHybrid, TRUE)
        searched == {search(index, bookId, context,
                            [maxResults |-> Some(maxMemories * 2),
                             minScore |-> Some(minScore),
                             useHybrid |-> Some(useHybrid)], embedFails, rank)}
        fallback == retrieveMemories(bookId, context,
                                     [maxMemories |-> Some(maxMemories),
                                      minImportance |-> Some(minImportance)]
                                         @@ noOptions)
    IN  IF loadMemoryBook(bookId) = None
        THEN [books |-> books,
              ret |-> [memories |-> <<>>, totalMemories |-> 0, truncated |-> FALSE,
                       method |-> "all", vectorSearchUsed |-> FALSE]]
        ELSE IF isAvailable /\ ~indexFails
        THEN CHOOSE out \in {retrieveFromResults(bookId, options, results) :
                                results \in searched} : TRUE
        ELSE [books |-> fallback.books,
              ret |-> fallback.ret @@ [vectorSearchUsed |-> FALSE]]

syncMemoryBookToVector(bookId, embedFails) ==
    IF loadMemoryBook(bookId) = None \/ ~isAvailable THEN index
    ELSE syncBook(index, Get(loadMemoryBook(bookId)), embedFails)

\* addMemoryWithVector on storage bs and indexes, the new entry taking id
\* memoryId.
addMemoryWithVectorRollingBack(bs, indexes, memoryId, bookId, params, embedFails, failAt) ==
    LET added == addMemoryTo(bs, memoryId, bookId, params)
    IN  IF added.ret = None \/ (isAvailable /\ (embedFails \/ failAt # "none"))
        THEN [books |-> bs, index |-> indexes, ret |-> None]
        ELSE [books |-> added.books,
              index |-> addEntry(indexes, bookId, Get(added.ret), embedFails, failAt),
              ret |-> added.ret]

addMemoryWithVector(bs, indexes, memoryId, bookId, params, embedFails, failAt) ==
    LET added == addMemoryTo(bs, memoryId, bookId, params)
    IN  IF added.ret = None THEN [books |-> bs, index |-> indexes, ret |-> None]
        ELSE [books |-> added.books,
              index |-> IF isAvailable
                        THEN addEntry(indexes, bookId, Get(added.ret), embedFails,
                                      failAt)
                        ELSE indexes,
              ret |-> added.ret]

deleteMemoryWithVector(bookId, memoryId) ==
    LET deleted == deleteMemory(bookId, memoryId)
    IN  [books |-> deleted.books,
         index |-> vectorStoreRemoveEntry(index, bookId, memoryId),
         ret |-> deleted.ret]

isDuplicateMemory(indexes, bookId, content, similarityThreshold, embedFails, rank) ==
    IF ~isAvailable THEN FALSE
    ELSE \E r \in Range(search(indexes, bookId, content,
                                [maxResults |-> Some(3),
                                 minScore |-> Some(similarityThreshold)]
                                    @@ noSearchOptions, embedFails, rank)) :
             r.score >= similarityThreshold

\* The loop of autoExtractMemories over the extracted memories; st carries the
\* storage, the indexes, the next fresh id and the two result lists.
\* One turn of the loop of autoExtractMemories; st carries the storage, the
\* indexes, the next fresh id and the two result lists.
processOne(st, memory, bookId, deduplicateThreshold, embedFails, rank) ==
    LET added == addMemoryWithVector(st.books, st.index, st.nextId, bookId,
                     [content |-> memory.content,
                      keywords |-> Some(memory.keywords),
                      importance |-> Some(memory.importance),
                      category |-> Some(memory.category)] @@ noParams,
                     embedFails, "none")
    IN  IF isDuplicateMemory(st.index, bookId, memory.content,
                             deduplicateThreshold, embedFails, rank)
        THEN [st EXCEPT !.duplicates = Append(@, memory)]
        ELSE [books |-> added.books, index |-> added.index,
              nextId |-> st.nextId + 1,
              saved |-> IF added.ret = None THEN st.saved
                        ELSE Append(st.saved, Get(added.ret)),
              duplicates |-> st.duplicates]

RECURSIVE processExtracted(_, _, _, _, _, _)
processExtracted(st, extracted, bookId, deduplicateThreshold, embedFails, rank) ==
    IF extracted = <<>> THEN st
    ELSE CHOOSE out \in
             {processExtracted(next, Tail(extracted), bookId,
                               deduplicateThreshold, embedFails, rank) :
                 next \in {processOne(st, Head(extracted), bookId,
                                      deduplicateThreshold, embedFails, rank)}} :
             TRUE

\* autoExtractMemories, given the memories parsed from the LLM's response.
autoExtractMemories(context, extracted, deduplicateThreshold, embedFails, rank) ==
    LET found == getOrCreateMemoryBook(context.characterName, None,
                                       context.sessionKey)
        start == [books |-> found.books, index |-> index,
                  nextId |-> IF found.created THEN nextId + 1 ELSE nextId,
                  saved |-> <<>>, duplicates |-> <<>>]
    IN  IF Len(extracted) = 0
        THEN [books |-> books, index |-> index, nextId |-> nextId,
              ret |-> [extracted |-> <<>>, saved |-> <<>>, duplicates |-> <<>>]]
        ELSE CHOOSE out \in
                 {[books |-> end.books, index |-> end.index, nextId |-> end.nextId,
                   ret |-> [extracted |-> extracted, saved |-> end.saved,
                            duplicates |-> end.duplicates]] :
                     end \in {processExtracted(start, extracted, found.book.id,
                                               deduplicateThreshold, embedFails,
                                               rank)}} : TRUE

(***************************************************************************)
(* Specification of the store with the vector backend: one book, its       *)
(* index, a provider that may be reconfigured between operations.          *)
(***************************************************************************)
VecUpdateParams == {[enabled |-> FALSE], [content |-> sTeaHat]}

VecContexts == {sCatBang, sTheAt}

VecOptions ==
    { noVectorOptions,
      [maxMemories |-> Some(1), minImportance |-> Some(0),
       useHybrid |-> Some(FALSE)] @@ noVectorOptions }

extractedMemory(content) ==
    [content |-> content, keywords |-> <<>>, importance |-> 7, category |-> "fact"]

ExtractionRuns ==
    { <<extractedMemory(sCatBang)>>,
      <<[extractedMemory(sTea) EXCEPT !.importance = 10]>>,
      <<extractedMemory(sTheCat), extractedMemory(sTheAt)>> }

DEFAULT_DEDUPLICATE_THRESHOLD == 8500

VecRanks(idx) ==
    IF idx.hasFts THEN {[id \in 1..14 |-> -2000], [id \in 1..14 |-> -12000]}
    ELSE {[id \in 1..14 |-> 0]}

InitVec ==
    /\ books = [id \in {BookId} |->
                   newBook(BookId, "Book", Some("c1"), None, DEFAULT_BOOK_SETTINGS, 0)]
    /\ \E hasFts \in BOOLEAN : index = [id \in {BookId} |-> emptyIndex(hasFts)]
    /\ provider = Some("m1")
    /\ providerCache = <<>>
    /\ indexCache = <<>>
    /\ initPromise = None
    /\ inflight = <<>>
    /\ now = 1
    /\ nextId = BookId + 1
    /\ res = [op |-> "init"]

\* resetVectorStore, then getVectorStore and initialize under a new
\* configuration.
ResetVectorStore ==
    \E p \in {None} \cup {Some(m) : m \in Models} :
        /\ now <= MaxVecOps
        /\ p # provider
        /\ provider' = p
        /\ now' = now + 1
        /\ res' = [op |-> "resetVectorStore"]
        /\ UNCHANGED <<books, index, providerCache, indexCache, initPromise, inflight, nextId>>

AddMemoryWithVector ==
    /\ now <= MaxVecOps
    /\ \E params \in AddParams, embedFails \in BOOLEAN, failAt \in FailPoints :
           /\ isAvailable \/ ~embedFails
           /\ failAt = "none" \/ (isAvailable /\ ~embedFails)
           /\ \E r \in {addMemoryWithVector(books, index, generateMemoryId, BookId,
                                           params, embedFails, failAt)} :
                  /\ books' = r.books
                  /\ index' = r.index
                  /\ nextId' = nextId + 1
                  /\ now' = now + 1
                  /\ res' = [op |-> "addMemoryWithVector", params |-> params,
                             embedFails |-> embedFails, failAt |-> failAt,
                             ret |-> r.ret]
                  /\ UNCHANGED <<provider, providerCache, indexCache, initPromise, inflight>>

DeleteMemoryWithVector ==
    /\ now <= MaxVecOps
    /\ \E memoryId \in entryIds(BookId) \cup rowIds(index[BookId]) \cup {0} :
           \E r \in {deleteMemoryWithVector(BookId, memoryId)} :
               /\ books' = r.books
               /\ index' = r.index
               /\ now' = now + 1
               /\ res' = [op |-> "deleteMemoryWithVector",
                          params |-> [memoryId |-> memoryId], ret |-> r.ret]
               /\ UNCHANGED <<provider, providerCache, indexCache, initPromise, inflight, nextId>>

VecUpdateMemory ==
    \E memoryId \in entryIds(BookId), updates \in VecUpdateParams :
        LET r == updateMemory(BookId, memoryId, updates)
        IN  /\ now <= MaxVecOps
            /\ books' = r.books
            /\ now' = now + 1
            /\ res' = [op |-> "updateMemory",
                       params |-> [memoryId |-> memoryId, updates |-> updates],
                       ret |-> r.ret]
            /\ UNCHANGED <<index, provider, providerCache, indexCache, initPromise, inflight, nextId>>

RetrieveMemoriesWithVector ==
    /\ now <= MaxVecOps
    /\ \E context \in VecContexts, options \in VecOptions, embedFails \in BOOLEAN,
          indexFails \in BOOLEAN, rank \in VecRanks(index[BookId]) :
           /\ isAvailable \/ ~(embedFails \/ indexFails)
           /\ ~(embedFails /\ indexFails)
           /\ \E r \in {retrieveMemoriesWithVector(BookId, context, options, embedFails,
                                                  indexFails, rank)} :
                  /\ books' = r.books
                  /\ now' = now + 1
                  /\ res' = [op |-> "retrieveMemoriesWithVector",
                             params |-> [bookId |-> BookId, context |-> context,
                                         options |-> options],
                             embedFails |-> embedFails, indexFails |-> indexFails,
                             ret |-> r.ret]
                  /\ UNCHANGED <<index, provider, providerCache, indexCache, initPromise, inflight, nextId>>

SyncMemoryBookToVector ==
    \E embedFails \in BOOLEAN :
        /\ now <= MaxVecOps
        /\ isAvailable \/ ~embedFails
        /\ index' = syncMemoryBookToVector(BookId, embedFails)
        /\ now' = now + 1
        /\ res' = [op |-> "syncMemoryBookToVector", embedFails |-> embedFails]
        /\ UNCHANGED <<books, provider, providerCache, indexCache, initPromise, inflight, nextId>>

AutoExtractMemories ==
    /\ now <= MaxVecOps
    /\ \E extracted \in ExtractionRuns, embedFails \in BOOLEAN,
          rank \in VecRanks(index[BookId]) :
           /\ isAvailable \/ ~embedFails
           /\ \E r \in {autoExtractMemories([characterName |-> Some("c1"),
                                            sessionKey |-> None], extracted,
                                           DEFAULT_DEDUPLICATE_THRESHOLD, embedFails, rank)} :
                  /\ books' = r.books
                  /\ index' = r.index
                  /\ nextId' = r.nextId
                  /\ now' = now + 1
                  /\ res' = [op |-> "autoExtractMemories", embedFails |-> embedFails,
                             ret |-> r.ret]
                  /\ UNCHANGED <<provider, providerCache, indexCache, initPromise, inflight>>

NextVec ==
    \/ ResetVectorStore
    \/ AddMemoryWithVector
    \/ DeleteMemory(MaxVecOps)
    \/ DeleteMemoryWithVector
    \/ VecUpdateMemory
    \/ RetrieveMemoriesWithVector
    \/ SyncMemoryBookToVector
    \/ AutoExtractMemories

SpecVec == InitVec /\ [][NextVec]_vars

\* The entry of the book that has this id, as a set (empty when there is none).
canonical(bs, entryId) ==
    {bs[BookId].entries[i] : i \in {j \in 1..Len(bs[BookId].entries) :
                                       bs[BookId].entries[j].id = entryId}}

returnedIds(ret) == {ret.memories[i].id : i \in 1..Len(ret.memories)}

\* C2: a retrieval (retrieveMemories or retrieveMemoriesWithVector) that returns
\* entry X leaves X in canonical storage with accessCount one higher than before
\* and lastAccessedAt equal to the call time; entries that were not returned
\* keep both fields.
C2_AccessBookkeeping ==
    [][res'.op \in {"retrieveMemories", "retrieveMemoriesWithVector"} =>
          /\ \A id \in returnedIds(res'.ret) :
                 /\ canonical(books, id) # {}
                 /\ \A before \in canonical(books, id) :
                        \E after \in canonical(books', id) :
                            /\ after.accessCount = before.accessCount + 1
                            /\ after.lastAccessedAt = now
          /\ \A id \in entryIds(BookId) \ returnedIds(res'.ret) :
                 \A before \in canonical(books, id) :
                     \E after \in canonical(books', id) :
                         /\ after.accessCount = before.accessCount
                         /\ after.lastAccessedAt = before.lastAccessedAt]_vars

\* C4: retrieveMemoriesWithVector returns only entries whose id is present in
\* the book's canonical storage.
C4_NoStaleRowInRetrieval ==
    res.op = "retrieveMemoriesWithVector" =>
        returnedIds(res.ret) \subseteq entryIds(BookId)

\* The row that indexing writes for a canonical entry.
rowOf(entry) == [entry EXCEPT !.importance = Some(importanceOf(entry))]

\* C5: when the backend is available and syncBook completes, every entry of the
\* canonical book has a row in the index with the same content and fields and a
\* vector of the configured model, and a second syncBook has nothing to index.
C5_SyncBringsIndexUpToDate ==
    [][(res'.op = "syncMemoryBookToVector" /\ isAvailable /\ ~res'.embedFails) =>
          /\ \A i \in 1..Len(books'[BookId].entries) :
                 LET entry == books'[BookId].entries[i]
                 IN  /\ \E j \in 1..Len(index'[BookId].rows) :
                            index'[BookId].rows[j] = rowOf(entry)
                     /\ entry.id \in DOMAIN index'[BookId].vectors
                     /\ index'[BookId].vectors[entry.id].model = providerModel
          /\ toIndex(index'[BookId], books'[BookId], providerModel) = <<>>]_vars

\* Whether the index holds an entry whose stored vector (of the configured model)
\* has similarity at least threshold to the content.
similarIndexed(idx, content, threshold) ==
    \E id \in DOMAIN idx.vectors :
        /\ id \in rowIds(idx)
        /\ idx.vectors[id].model = providerModel
        /\ cosineSimilarity(Embed(providerModel, content), idx.vectors[id].embedding)
               >= threshold

\* C7: with a vector backend available, a candidate of an extraction run whose
\* content has similarity >= the deduplication threshold to an entry already in
\* the book's index is put in the duplicates list and is not saved.
C7_NoNearDuplicateCommitted ==
    [][(res'.op = "autoExtractMemories" /\ isAvailable /\ ~res'.embedFails) =>
          \A i \in 1..Len(res'.ret.extracted) :
              LET memory == res'.ret.extracted[i]
              IN  similarIndexed(index[BookId], memory.content,
                                 DEFAULT_DEDUPLICATE_THRESHOLD)
                  => /\ memory \in Range(res'.ret.duplicates)
                     /\ \A k \in 1..Len(res'.ret.saved) :
                            res'.ret.saved[k].content # memory.content]_vars

\* C11: the stored accessCount of an entry starts at 0 when the entry is created
\* and is never lower after an operation than it was before it.
C11_AccessCountMonotone ==
    [][/\ \A id \in entryIds(BookId) :
              \A before \in canonical(books, id) :
                  \A after \in canonical(books', id) :
                      after.accessCount >= before.accessCount
       /\ res'.op = "addMemory" /\ res'.ret # None
              => Get(res'.ret).accessCount = 0]_vars

\* The model tags of the stored vectors that a vector or hybrid search of the
\* index compares with its query vector.
comparedModels(idx) ==
    {idx.vectors[joinedRows(idx)[i].id].model : i \in 1..Len(joinedRows(idx))}

\* C12: a retrieval that ran a vector or hybrid search compared the query
\* vector, produced by the configured model, only with stored vectors tagged
\* with that model.
C12_NoCrossModelComparison ==
    (/\ res.op = "retrieveMemoriesWithVector"
     /\ res.ret.vectorSearchUsed
     /\ ~res.embedFails)
        => comparedModels(index[BookId]) \subseteq {providerModel}

\* The options retrieveMemoriesWithVector passes to its keyword fallback.
fallbackOptions(bookId, options) ==
    LET book == books[bookId]
    IN  [maxMemories |-> Some(OrElse(options.maxMemories,
                                     book.settings.maxMemoriesPerRequest)),
         minImportance |-> Some(OrElse(options.minImportance,
                                       book.settings.minImportanceForInjection))]
            @@ noOptions

\* C13: when the backend is available but the vector retrieval fails (the query
\* embedding call or the index query throws), retrieveMemoriesWithVector returns
\* the keyword retrieval result with vectorSearchUsed false and a method that is
\* neither vector nor hybrid.
C13_VectorFailureFallsBack ==
    [][(/\ res'.op = "retrieveMemoriesWithVector"
        /\ isAvailable
        /\ res'.embedFails \/ res'.indexFails)
          => /\ ~res'.ret.vectorSearchUsed
             /\ res'.ret.method \notin {"vector", "hybrid"}
             /\ res'.ret.memories =
                    retrieveMemories(BookId, res'.params.context,
                                     fallbackOptions(BookId, res'.params.options))
                        .ret.memories]_vars

\* C14: for an existing book, addMemoryWithVector appends the new entry to
\* canonical storage and returns it, whether the backend is unavailable, the
\* embedding call fails or the index write fails.
C14_AddSurvivesVectorFailure ==
    [][res'.op = "addMemoryWithVector" =>
          /\ res'.ret # None
          /\ books'[BookId].entries = Append(books[BookId].entries, Get(res'.ret))]_vars

\* C14 witness: an addMemoryWithVector whose index write failed after the
\* embedding was computed; the entry is in canonical storage without a vector.
C14_Witness ==
    /\ res.op = "addMemoryWithVector"
    /\ res.failAt = "vectors"
    /\ res.ret # None
    /\ Get(res.ret).id \in entryIds(BookId)
    /\ Get(res.ret).id \notin DOMAIN index[BookId].vectors

(***************************************************************************)
(* Specification of deleteMemoryWithVector statement by statement: the     *)
(* function is synchronous, so nothing else runs between its two           *)
(* statements; res.op = "deleteMemoryWithVector.removeEntry" marks the     *)
(* state between them.                                                     *)
(***************************************************************************)
\* Statement `stage` of deleteMemoryWithVector, under the order that removes
\* from canonical storage first.
deleteStatementStoreFirst(stage, bookId, memoryId) ==
    IF stage = 2
    THEN [books |-> books,
          index |-> vectorStoreRemoveEntry(index, bookId, memoryId),
          ret |-> res.ret]
    ELSE [index |-> index] @@ deleteMemory(bookId, memoryId)

\* Statement `stage` of deleteMemoryWithVector: 1 is vectorStore.removeEntry,
\* 2 is return deleteMemory.
deleteStatement(stage, bookId, memoryId) ==
    IF stage = 1
    THEN [books |-> books,
          index |-> vectorStoreRemoveEntry(index, bookId, memoryId),
          ret |-> FALSE]
    ELSE [index |-> index] @@ deleteMemory(bookId, memoryId)

deleting == res.op = "deleteMemoryWithVector.removeEntry"

\* The first statement; when the index database throws, the function throws
\* and the second statement does not run.
DeleteRemoveEntry ==
    /\ now <= MaxVecOps
    /\ ~deleting
    /\ \E memoryId \in entryIds(BookId) \cup rowIds(index[BookId]) \cup {0},
          indexFails \in BOOLEAN :
           \E r \in {deleteStatement(1, BookId, memoryId)} :
               /\ books' = (IF indexFails THEN books ELSE r.books)
               /\ index' = (IF indexFails THEN index ELSE r.index)
               /\ res' = [op |-> IF indexFails THEN "deleteMemoryWithVector.threw"
                                 ELSE "deleteMemoryWithVector.removeEntry",
                          params |-> [memoryId |-> memoryId],
                          wasIndexed |-> memoryId \in rowIds(index[BookId]),
                          ret |-> r.ret]
               /\ now' = (IF indexFails THEN now + 1 ELSE now)
               /\ UNCHANGED <<provider, providerCache, indexCache, initPromise, inflight, nextId>>

DeleteReturnDeleteMemory ==
    /\ deleting
    /\ \E r \in {deleteStatement(2, BookId, res.params.memoryId)} :
           /\ books' = r.books
           /\ index' = r.index
           /\ res' = [op |-> "deleteMemoryWithVector", params |-> res.params,
                      wasIndexed |-> res.wasIndexed, ret |-> r.ret]
           /\ now' = now + 1
           /\ UNCHANGED <<provider, providerCache, indexCache, initPromise, inflight, nextId>>

NextDelete ==
    \/ ~deleting /\ AddMemoryWithVector
    \/ ~deleting /\ DeleteMemory(MaxVecOps)
    \/ DeleteRemoveEntry
    \/ DeleteReturnDeleteMemory

SpecDelete == InitVec /\ [][NextDelete]_vars

\* The ids that have a row in the index but no entry in the book.
orphanIds(bs, idx) ==
    rowIds(idx) \ {bs[BookId].entries[i].id : i \in 1..Len(bs[BookId].entries)}

\* C15: no statement of deleteMemoryWithVector leaves in the index an id that
\* canonical storage does not hold unless it was already so before the call;
\* between the two statements the deleted id is not in the index; after the
\* function returned true the id is in neither store.
C15_DeleteIndexBeforeStore ==
    [][res'.op \in {"deleteMemoryWithVector.removeEntry", "deleteMemoryWithVector"} =>
          /\ orphanIds(books', index'[BookId]) \subseteq orphanIds(books, index[BookId])
          /\ res'.params.memoryId \notin rowIds(index'[BookId])
          /\ (res'.op = "deleteMemoryWithVector" /\ res'.ret)
                 => res'.params.memoryId \notin entryIds(BookId)']_vars

\* C15 witness: the state between the two statements of a delete of an entry
\* that was in both stores: its row is gone and its canonical entry is still
\* there.
C15_Witness ==
    /\ deleting
    /\ res.wasIndexed
    /\ res.params.memoryId \in entryIds(BookId)
    /\ res.params.memoryId \notin rowIds(index[BookId])


\* ---------------------------------------------------------------------------
\* Embedding provider resolution (embedding-manager.ts)
\* ---------------------------------------------------------------------------

MaxProviderOps == 2

DEFAULT_MODELS ==
    [openai |-> "text-embedding-3-small",
     voyage |-> "voyage-3-lite",
     gemini |-> "text-embedding-004",
     local  |-> "hf:ggml-org/embeddinggemma-300M-GGUF/embeddinggemma-300M-Q8_0.gguf"]

\* DEFAULT_MODELS[provider], undefined for a name that is not a key ("auto").
defaultModel(name) ==
    IF name \in DOMAIN DEFAULT_MODELS THEN Some(DEFAULT_MODELS[name]) ELSE None

\* `${provider}:${model}`
getCacheKey(config) ==
    LET primary == OrElse(config.provider, "auto")
        model   == OrElse(config.model, OrElse(defaultModel(primary), "default"))
    IN  <<primary, ":", model>>

\* The credential each remote constructor reads, and the import the local one
\* needs; env = [vars : set of environment variables set, llama : BOOLEAN].
hasCredentials(config, env, id) ==
    CASE id = "openai" -> config.apiKey # None \/ "OPENAI_API_KEY" \in env.vars
      [] id = "voyage" -> config.apiKey # None \/ "VOYAGE_API_KEY" \in env.vars
      [] id = "gemini" -> \/ config.apiKey # None
                          \/ "GEMINI_API_KEY" \in env.vars
                          \/ "GOOGLE_API_KEY" \in env.vars
      [] id = "local"  -> env.llama

\* The message of the Error a constructor throws, as a sequence of fragments.
constructionError(id) ==
    CASE id = "openai" -> <<"No API key found for provider openai. Set OPENAI_API_KEY environment variable.">>
      [] id = "voyage" -> <<"No API key found for provider voyage. Set VOYAGE_API_KEY environment variable.">>
      [] id = "gemini" -> <<"No API key found for provider gemini. Set GEMINI_API_KEY or GOOGLE_API_KEY environment variable.">>
      [] id = "local"  -> <<"Local embeddings unavailable. node-llama-cpp is not installed.">>

\* The provider object a constructor returns; serial stands for the identity
\* of the object, so that two constructions give two different instances.
providerObject(config, id, serial) ==
    [id     |-> id,
     model  |-> IF id = "local" THEN DEFAULT_MODELS.local
                ELSE OrElse(config.model, DEFAULT_MODELS[id]),
     serial |-> serial]

\* createProvider(id): the switch over the four constructors.
createProvider(config, env, id, serial) ==
    IF hasCredentials(config, env, id)
    THEN [threw |-> FALSE, provider |-> providerObject(config, id, serial)]
    ELSE [threw |-> TRUE, message |-> constructionError(id)]

\* errors.join("\n")
RECURSIVE joinLines(_)
joinLines(errors) ==
    IF errors = <<>> THEN <<>>
    ELSE IF Len(errors) = 1 THEN Head(errors)
    ELSE Head(errors) \o <<"\n">> \o joinLines(Tail(errors))

autoProviders == <<"openai", "voyage", "gemini">>

\* for (const p of providers) { try { ...; return } catch { errors.push } }; throw
RECURSIVE autoSelect(_, _, _, _, _, _)
autoSelect(config, env, serial, providers, errors, attempts) ==
    IF providers = <<>>
    THEN [threw    |-> TRUE,
          message  |-> <<"No embedding provider available.", "\n">> \o joinLines(errors),
          attempts |-> attempts]
    ELSE LET p == Head(providers)
             result == createProvider(config, env, p, serial)
         IN  IF ~result.threw
             THEN [threw |-> FALSE, provider |-> result.provider,
                   attempts |-> Append(attempts, p)]
             ELSE autoSelect(config, env, serial, Tail(providers),
                             Append(errors, <<p, ": ">> \o result.message),
                             Append(attempts, p))

\* The fallback test without its comparison against the primary.
usableFallbackIgnoringPrimary(fallback, primary) ==
    fallback # "none"

\* fallback && fallback !== "none" && fallback !== provider
usableFallback(fallback, primary) ==
    fallback # "none" /\ fallback # primary

\* A lookup that never finds anything.
cacheLookupAlwaysMissing(cache, cacheKey) ==
    None

\* providerCache.get(cacheKey)
cacheLookup(cache, cacheKey) ==
    IF cacheKey \in DOMAIN cache THEN Some(cache[cacheKey]) ELSE None

\* providerCache.set(cacheKey, result)
cacheSet(cache, cacheKey, result) ==
    [k \in DOMAIN cache \cup {cacheKey} |-> IF k = cacheKey THEN result ELSE cache[k]]

returned(instance, fallbackUsed, fallbackReason) ==
    [threw |-> FALSE, provider |-> instance,
     fallbackUsed |-> fallbackUsed, fallbackReason |-> fallbackReason]

thrown(message) ==
    [threw |-> TRUE, message |-> message]


\* The explicit branch: try the primary, then the fallback when it is usable.
resolveExplicit(cache, cacheKey, config, env, serial, primary, fallback) ==
    LET first == createProvider(config, env, primary, serial)
    IN  IF ~first.threw
        THEN [cache    |-> cacheSet(cache, cacheKey, first.provider),
              ret      |-> returned(first.provider, None, None),
              attempts |-> <<primary>>]
        ELSE LET reason == first.message
             IN  IF usableFallback(fallback, primary)
                 THEN LET second == createProvider(config, env, fallback, serial)
                      IN  IF ~second.threw
                          THEN [cache    |-> cacheSet(cache, cacheKey, second.provider),
                                ret      |-> returned(second.provider, Some(TRUE), Some(reason)),
                                attempts |-> <<primary, fallback>>]
                          ELSE [cache    |-> cache,
                                ret      |-> thrown(reason \o <<"\n\nFallback to ", fallback, " failed: ">>
                                                        \o second.message),
                                attempts |-> <<primary, fallback>>]
                 ELSE [cache |-> cache, ret |-> thrown(reason), attempts |-> <<primary>>]

\* The auto branch: the first backend of the loop that constructs is cached.
resolveAuto(cache, cacheKey, config, env, serial) ==
    LET selected == autoSelect(config, env, serial, autoProviders, <<>>, <<>>)
    IN  IF ~selected.threw
        THEN [cache    |-> cacheSet(cache, cacheKey, selected.provider),
              ret      |-> returned(selected.provider, None, None),
              attempts |-> selected.attempts]
        ELSE [cache    |-> cache,
              ret      |-> thrown(selected.message),
              attempts |-> selected.attempts]

\* getEmbeddingProvider(config) under environment env: the cache afterwards,
\* what the call returned or threw, and the backends it tried to construct.
getEmbeddingProvider(cache, config, env, serial) ==
    LET cacheKey == getCacheKey(config)
        cached   == cacheLookup(cache, cacheKey)
        primary  == OrElse(config.provider, "auto")
        fallback == OrElse(config.fallback, "none")
    IN  IF cached # None
        THEN [cache |-> cache, ret |-> returned(Get(cached), None, None), attempts |-> <<>>]
        ELSE IF primary = "auto"
        THEN resolveAuto(cache, cacheKey, config, env, serial)
        ELSE resolveExplicit(cache, cacheKey, config, env, serial, primary, fallback)

embeddingConfig(primary, model, fallback, apiKey) ==
    [provider |-> primary, model |-> model, fallback |-> fallback, apiKey |-> apiKey]

EmbeddingConfigs ==
    { embeddingConfig(None, None, None, None),
      embeddingConfig(Some("auto"), None, None, Some("k")),
      embeddingConfig(Some("auto"), Some("m1"), Some("local"), None),
      embeddingConfig(Some("openai"), None, None, None),
      embeddingConfig(Some("openai"), None, Some("none"), None),
      embeddingConfig(Some("openai"), None, Some("voyage"), None),
      embeddingConfig(Some("openai"), None, Some("openai"), None),
      embeddingConfig(Some("voyage"), Some("m1"), Some("gemini"), None),
      embeddingConfig(Some("gemini"), None, Some("local"), None),
      embeddingConfig(Some("local"), None, Some("openai"), None) }

environment(vars_, llama) ==
    [vars |-> vars_, llama |-> llama]

Environments ==
    { environment({}, FALSE),
      environment({"OPENAI_API_KEY"}, FALSE),
      environment({"VOYAGE_API_KEY"}, FALSE),
      environment({"GOOGLE_API_KEY"}, FALSE),
      environment({"VOYAGE_API_KEY", "GEMINI_API_KEY"}, FALSE),
      environment({}, TRUE) }

InitProvider ==
    /\ books = <<>>
    /\ index = <<>>
    /\ provider = None
    /\ providerCache = <<>>
    /\ indexCache = <<>>
    /\ initPromise = None
    /\ inflight = <<>>
    /\ now = 1
    /\ nextId = 1
    /\ res = [op |-> "init", resolved |-> {}]

\* One call of getEmbeddingProvider.  res.cached tells whether the key was in
\* the cache when the call began; res.resolved keeps, for every configuration
\* a call has returned a provider for, the instances returned so far.
GetEmbeddingProvider ==
    \E config \in EmbeddingConfigs, env \in Environments :
        /\ now <= MaxProviderOps
        /\ \E r \in {getEmbeddingProvider(providerCache, config, env, nextId)} :
            /\ providerCache' = r.cache
            /\ res' = [op       |-> "getEmbeddingProvider",
                       config   |-> config,
                       env      |-> env,
                       cached   |-> getCacheKey(config) \in DOMAIN providerCache,
                       ret      |-> r.ret,
                       attempts |-> r.attempts,
                       resolved |-> IF r.ret.threw THEN res.resolved
                                    ELSE res.resolved \cup {<<config, r.ret.provider>>}]
        /\ now' = now + 1
        /\ nextId' = nextId + 1
        /\ UNCHANGED <<books, index, provider, indexCache, initPromise, inflight>>

NextProvider ==
    GetEmbeddingProvider

SpecProvider ==
    InitProvider /\ [][NextProvider]_vars


isAuto(config) ==
    OrElse(config.provider, "auto") = "auto"

\* What the auto-select loop must have done in the call a step makes: stopped
\* at the first backend of the priority order that constructs and returned it,
\* or tried all three, thrown, and left the cache as it was.
autoOutcome ==
    LET constructs(k) == hasCredentials(res'.config, res'.env, autoProviders[k])
        order == 1..Len(autoProviders)
    IN  IF \E k \in order : constructs(k)
        THEN \E k \in order :
                /\ constructs(k)
                /\ \A j \in 1..(k - 1) : ~constructs(j)
                /\ res'.attempts = SubSeq(autoProviders, 1, k)
                /\ ~res'.ret.threw
                /\ res'.ret.provider.id = autoProviders[k]
                /\ res'.ret.provider.serial = nextId
        ELSE /\ res'.attempts = autoProviders
             /\ res'.ret.threw
             /\ Head(res'.ret.message) = "No embedding provider available."
             /\ providerCache' = providerCache

containsFragments(hay, needle) ==
    \E i \in 1..(Len(hay) - Len(needle) + 1) :
        SubSeq(hay, i, i + Len(needle) - 1) = needle

\* What the explicit branch must have done in the call a step makes, once the
\* named backend has failed to construct.
fallbackOutcome ==
    LET config   == res'.config
        primary  == Get(config.provider)
        reason   == constructionError(primary)
        usable   == /\ config.fallback # None
                    /\ Get(config.fallback) # "none"
                    /\ Get(config.fallback) # primary
    IN  IF usable
        THEN LET fallback == Get(config.fallback)
             IN  /\ res'.attempts = <<primary, fallback>>
                 /\ IF hasCredentials(config, res'.env, fallback)
                    THEN /\ ~res'.ret.threw
                         /\ res'.ret.provider.id = fallback
                         /\ res'.ret.fallbackUsed = Some(TRUE)
                         /\ res'.ret.fallbackReason = Some(reason)
                    ELSE /\ res'.ret.threw
                         /\ containsFragments(res'.ret.message, reason)
                         /\ containsFragments(res'.ret.message, constructionError(fallback))
                         /\ res'.ret.message # reason
        ELSE /\ res'.attempts = <<primary>>
             /\ res'.ret.threw
             /\ res'.ret.message = reason

\* C17: when a call of getEmbeddingProvider names a backend and that backend
\* fails to construct, then (a) with a fallback that is configured, not "none"
\* and not the primary, the fallback is constructed exactly once, and either
\* its provider is returned with fallbackUsed set and the primary's message as
\* fallbackReason, or the error thrown holds the primary's message together
\* with the fallback's; (b) otherwise the primary's error is thrown and only
\* the primary was tried.
C17_FallbackOnce ==
    [][(/\ res'.op = "getEmbeddingProvider"
        /\ ~isAuto(res'.config)
        /\ ~res'.cached
        /\ ~hasCredentials(res'.config, res'.env, Get(res'.config.provider)))
            => fallbackOutcome]_vars

\* openai was named and could not be constructed, and the voyage fallback was
\* returned in its place.
C17_Witness ==
    /\ res.op = "getEmbeddingProvider"
    /\ res.config.provider = Some("openai")
    /\ res.attempts = <<"openai", "voyage">>
    /\ ~res.ret.threw
    /\ res.ret.provider.id = "voyage"
    /\ res.ret.fallbackUsed = Some(TRUE)


\* C18: once a call of getEmbeddingProvider has returned a provider for a
\* configuration, every later call with the identical configuration returns
\* that same provider instance and constructs no backend.
C18_ProviderCached ==
    [][res'.op = "getEmbeddingProvider" =>
        \A earlier \in res.resolved :
            earlier[1] = res'.config =>
                /\ ~res'.ret.threw
                /\ res'.ret.provider = earlier[2]
                /\ res'.attempts = <<>>
                /\ providerCache' = providerCache
                /\ providerCache[getCacheKey(res'.config)] = earlier[2]]_vars

\* A second call with the configuration of the first: it was answered from
\* the cache with the first call's instance, in an environment in which that
\* backend could not have been constructed again.
C18_Witness ==
    /\ res.op = "getEmbeddingProvider"
    /\ now = 3
    /\ res.cached
    /\ res.attempts = <<>>
    /\ res.resolved = {<<res.config, res.ret.provider>>}
    /\ res.ret.provider.serial = 1
    /\ ~hasCredentials(res.config, res.env, res.ret.provider.id)


\* ---------------------------------------------------------------------------
\* Batch embedding (SillyTavernEmbeddingManager.embedBatch)
\* ---------------------------------------------------------------------------

MaxEmbedOps == 2
MaxTexts == 3

sBlank == <<" ">>

EmbedTexts == {sEmpty, sBlank, sCat, sTheCat, sHat}

TextBatches ==
    UNION {[1..n -> EmbedTexts] : n \in 0..MaxTexts}

InitEmbed ==
    /\ books = <<>>
    /\ index = <<>>
    /\ provider \in {None} \cup {Some(m) : m \in Models}
    /\ providerCache = <<>>
    /\ indexCache = <<>>
    /\ initPromise = None
    /\ inflight = <<>>
    /\ now = 1
    /\ nextId = 1
    /\ res = [op |-> "init"]

EmbedBatch ==
    \E texts \in TextBatches, backendFails \in BOOLEAN :
        /\ now <= MaxEmbedOps
        /\ \E r \in {managerEmbedBatch(provider, texts, backendFails)} :
            res' = [op |-> "embedBatch", texts |-> texts, backendFails |-> backendFails,
                    threw |-> r.threw, ret |-> r.ret, sent |-> r.sent]
        /\ now' = now + 1
        /\ UNCHANGED <<books, index, provider, providerCache, indexCache, initPromise, inflight, nextId>>

NextEmbed ==
    EmbedBatch

SpecEmbed ==
    InitEmbed /\ [][NextEmbed]_vars

\* C19: embedBatch never hands the backend a blank text and does not call it
\* when every text is blank; with a provider and a backend that answers it
\* returns, and whenever it returns the result has the length of the input,
\* holds the empty vector exactly at the positions of the blank texts, and
\* elsewhere the backend's vector for the text at that position.
C19_EmbedBatchPositions ==
    res.op = "embedBatch" =>
        LET texts == res.texts
        IN  /\ \A c \in Range(res.sent) : \A k \in 1..Len(c) : ~isBlank(c[k])
            /\ Len(res.sent) <= 1
            /\ (\A i \in 1..Len(texts) : isBlank(texts[i])) => res.sent = <<>>
            /\ (provider # None /\ ~res.backendFails) => ~res.threw
            /\ ~res.threw =>
                /\ Len(res.ret) = Len(texts)
                /\ \A i \in 1..Len(texts) :
                    /\ res.ret[i] = <<>> <=> isBlank(texts[i])
                    /\ ~isBlank(texts[i]) => res.ret[i] = Embed(providerModel, texts[i])

\* A batch with a whitespace-only text between two different texts: the
\* backend received the two, and each vector came back at its own position.
C19_Witness ==
    /\ res.op = "embedBatch"
    /\ ~res.threw
    /\ res.texts = <<sCat, sBlank, sHat>>
    /\ res.sent = << <<sCat, sHat>> >>
    /\ res.ret[2] = <<>>
    /\ res.ret[3] = Embed(providerModel, sHat)
    /\ res.ret[1] # res.ret[3]


\* ---------------------------------------------------------------------------
\* Store operations on known and unknown identifiers (store.ts)
\* ---------------------------------------------------------------------------

MaxIdOps == 3

\* An identifier that no book and no entry ever has.
UnknownId == 0

\* The book ids a caller may pass: the book of InitStore (which may have been
\* deleted since), every stored book, and one that never existed.
CallerBookIds == DOMAIN books \cup {BookId, UnknownId}

AddMemoryToBook ==
    \E bookId \in CallerBookIds, params \in AddParams :
        /\ now <= MaxIdOps
        /\ \E r \in {addMemory(bookId, params)} :
            /\ books' = r.books
            /\ res' = [op |-> "addMemory",
                       params |-> [bookId |-> bookId, memoryId |-> UnknownId],
                       ret |-> r.ret]
        /\ nextId' = nextId + 1
        /\ now' = now + 1
        /\ UNCHANGED <<index, provider, providerCache, indexCache, initPromise, inflight>>

UpdateMemoryInBook ==
    \E bookId \in CallerBookIds, updates \in UpdateParams :
        \E memoryId \in entryIds(bookId) \cup {UnknownId} :
            /\ now <= MaxIdOps
            /\ \E r \in {updateMemory(bookId, memoryId, updates)} :
                /\ books' = r.books
                /\ res' = [op |-> "updateMemory",
                           params |-> [bookId |-> bookId, memoryId |-> memoryId],
                           ret |-> r.ret]
            /\ now' = now + 1
            /\ UNCHANGED <<index, provider, providerCache, indexCache, initPromise, inflight, nextId>>

DeleteMemoryFromBook ==
    \E bookId \in CallerBookIds :
        \E memoryId \in entryIds(bookId) \cup {UnknownId} :
            /\ now <= MaxIdOps
            /\ \E r \in {deleteMemory(bookId, memoryId)} :
                /\ books' = r.books
                /\ res' = [op |-> "deleteMemory",
                           params |-> [bookId |-> bookId, memoryId |-> memoryId],
                           ret |-> r.ret]
            /\ now' = now + 1
            /\ UNCHANGED <<index, provider, providerCache, indexCache, initPromise, inflight, nextId>>

DeleteBook ==
    \E bookId \in CallerBookIds :
        /\ now <= MaxIdOps
        /\ \E r \in {deleteMemoryBook(bookId)} :
            /\ books' = r.books
            /\ res' = [op |-> "deleteMemoryBook",
                       params |-> [bookId |-> bookId, memoryId |-> UnknownId],
                       ret |-> r.ret]
        /\ now' = now + 1
        /\ UNCHANGED <<index, provider, providerCache, indexCache, initPromise, inflight, nextId>>

NextIds ==
    \/ AddMemoryToBook
    \/ UpdateMemoryInBook
    \/ DeleteMemoryFromBook
    \/ DeleteBook

SpecIds == InitStore /\ [][NextIds]_vars

\* The call a step makes names a book that is not stored or, for updateMemory
\* and deleteMemory, an entry that the named book does not hold.
namesUnknownId ==
    \/ res'.params.bookId \notin DOMAIN books
    \/ /\ res'.op \in {"updateMemory", "deleteMemory"}
       /\ res'.params.memoryId \notin entryIds(res'.params.bookId)

\* C20: a call of addMemory, updateMemory, deleteMemory or deleteMemoryBook
\* that names an unknown book, or of updateMemory or deleteMemory that names
\* an unknown entry, returns null (addMemory, updateMemory) or false
\* (deleteMemory, deleteMemoryBook) and leaves every book file as it was.
C20_UnknownIdsChangeNothing ==
    [][(res'.op \in {"addMemory", "updateMemory", "deleteMemory", "deleteMemoryBook"}
            /\ namesUnknownId)
        => /\ books' = books
           /\ res'.op \in {"addMemory", "updateMemory"} => res'.ret = None
           /\ res'.op \in {"deleteMemory", "deleteMemoryBook"} => res'.ret = FALSE]_vars

\* deleteMemory was called with an unknown entry id on a stored book that
\* holds entries: it returned false and the entries are still there.
C20_Witness ==
    /\ res.op = "deleteMemory"
    /\ res.params.bookId \in DOMAIN books
    /\ res.params.memoryId = UnknownId
    /\ res.ret = FALSE
    /\ books[res.params.bookId].entries # <<>>


\* ---------------------------------------------------------------------------
\* Extraction mode (shouldExtract)
\* ---------------------------------------------------------------------------

MaxMessages == 2

\* Characters outside ASCII are written by their code point; each is one
\* UTF-16 code unit and so one element of a string.
hanJi == "U+8BB0"
hanZhu == "U+4F4F"
hanBie == "U+522B"
hanWang == "U+5FD8"
hanLe == "U+4E86"
hanBu == "U+4E0D"
hanYao == "U+8981"
hanQing == "U+8BF7"
hanWo == "U+6211"

UpperAlphabet ==
    <<"A", "B", "C", "D", "E", "F", "G", "H", "I", "J", "K", "L", "M",
      "N", "O", "P", "Q", "R", "S", "T", "U", "V", "W", "X", "Y", "Z">>

LowerAlphabet ==
    <<"a", "b", "c", "d", "e", "f", "g", "h", "i", "j", "k", "l", "m",
      "n", "o", "p", "q", "r", "s", "t", "u", "v", "w", "x", "y", "z">>

Digits == {"0", "1", "2", "3", "4", "5", "6", "7", "8", "9"}

\* \w of a regular expression without the u flag: [A-Za-z0-9_].
isRegexWordChar(c) ==
    c \in Range(UpperAlphabet) \cup Range(LowerAlphabet) \cup Digits \cup {"_"}

\* Canonicalisation of the i flag on the characters of the model.
foldCase(c) ==
    IF \E k \in DOMAIN UpperAlphabet : UpperAlphabet[k] = c
    THEN LowerAlphabet[CHOOSE k \in DOMAIN UpperAlphabet : UpperAlphabet[k] = c]
    ELSE c

foldCaseAll(s) ==
    [k \in 1..Len(s) |-> foldCase(s[k])]

\* \b at the gap before text[k] (k = Len(text) + 1: the end of the text): a
\* word character on exactly one side.
isWordAt(text, k) ==
    k \in 1..Len(text) /\ isRegexWordChar(text[k])

wordBoundary(text, k) ==
    isWordAt(text, k - 1) # isWordAt(text, k)

\* A trigger pattern: the literal alternatives it spells, whether it carries
\* the i flag, and whether it is wrapped in \b ... \b.
regex(alternatives, ignoreCase, bounded) ==
    [alternatives |-> alternatives, ignoreCase |-> ignoreCase, bounded |-> bounded]

matchesAt(p, text, alt, i) ==
    /\ i + Len(alt) - 1 <= Len(text)
    /\ LET found == SubSeq(text, i, i + Len(alt) - 1)
       IN  IF p.ignoreCase THEN foldCaseAll(found) = foldCaseAll(alt) ELSE found = alt
    /\ p.bounded => wordBoundary(text, i) /\ wordBoundary(text, i + Len(alt))

\* RegExp.prototype.test for a pattern without the g or y flag.
regexTest(p, text) ==
    \E alt \in p.alternatives : \E i \in 1..Len(text) : matchesAt(p, text, alt, i)

tRemember == <<"r", "e", "m", "e", "m", "b", "e", "r">>
tDontForget == <<"d", "o", "n", "t", " ", "f", "o", "r", "g", "e", "t">>
tDonApostropheTForget == <<"d", "o", "n", "'", "t", " ", "f", "o", "r", "g", "e", "t">>
tKeepInMind == <<"k", "e", "e", "p", " ", "i", "n", " ", "m", "i", "n", "d">>
tJiZhu == <<hanJi, hanZhu>>
tBieWangLe == <<hanBie, hanWang, hanLe>>
tBuYaoWangJi == <<hanBu, hanYao, hanWang, hanJi>>

\* defaultPatterns of shouldExtract.
defaultPatterns ==
    << regex({tRemember}, TRUE, TRUE),
       regex({tDontForget, tDonApostropheTForget}, TRUE, TRUE),
       regex({tKeepInMind}, TRUE, TRUE),
       regex({tJiZhu}, FALSE, TRUE),
       regex({tBieWangLe}, FALSE, TRUE),
       regex({tBuYaoWangJi}, FALSE, TRUE) >>

\* messages.filter((m) => m.role === "user").pop(), without regard to role.
lastMessageOfAnyRole(messages) ==
    IF messages = <<>> THEN None ELSE Some(messages[Len(messages)])

\* messages.filter((m) => m.role === "user").pop()
lastUserMessage(messages) ==
    LET users == SelectSeq(messages, LAMBDA m : m.role = "user")
    IN  IF users = <<>> THEN None ELSE Some(users[Len(users)])

shouldExtract(mode, messages, triggerPatterns) ==
    IF mode = "off" THEN FALSE
    ELSE IF mode = "auto" THEN Len(messages) > 0
    ELSE IF mode = "trigger"
    THEN LET patterns == OrElse(triggerPatterns, defaultPatterns)
             last == lastUserMessage(messages)
         IN  IF last = None THEN FALSE
             ELSE \E k \in 1..Len(patterns) : regexTest(patterns[k], Get(last).content)
    ELSE FALSE


tHi == <<"h", "i">>
tRememberIt == <<"R", "e", "m", "e", "m", "b", "e", "r", " ", "i", "t">>
tRemembered == <<"r", "e", "m", "e", "m", "b", "e", "r", "e", "d">>
tJiZhuSpaced == <<" ", hanJi, hanZhu, " ">>
tQingJiZhuWo == <<hanQing, hanJi, hanZhu, hanWo>>
tAJiZhuB == <<"a", hanJi, hanZhu, "b">>

MessageContents ==
    { tHi, tRememberIt, tRemembered, tDonApostropheTForget, tJiZhu, tJiZhuSpaced,
      tQingJiZhuWo, tAJiZhuB, tBieWangLe, tBuYaoWangJi }

ChatMessages ==
    [role : {"user", "assistant"}, content : MessageContents]

MessageLists ==
    UNION {[1..n -> ChatMessages] : n \in 0..MaxMessages}

ExtractionModes == {"off", "trigger", "auto"}

TriggerPatterns ==
    {None, Some(<<>>), Some(<<regex({tHi}, FALSE, FALSE)>>)}

ShouldExtract ==
    \E mode \in ExtractionModes, messages \in MessageLists, triggerPatterns \in TriggerPatterns :
        /\ res.op = "init"
        /\ res' = [op |-> "shouldExtract", mode |-> mode, messages |-> messages,
                   triggerPatterns |-> triggerPatterns,
                   ret |-> shouldExtract(mode, messages, triggerPatterns)]
        /\ now' = now + 1
        /\ UNCHANGED <<books, index, provider, providerCache, indexCache, initPromise, inflight, nextId>>

NextExtract ==
    ShouldExtract

SpecExtract ==
    InitBooks /\ [][NextExtract]_vars

\* C21: shouldExtract returns false in mode off; in mode auto it returns true
\* exactly when the message list is not empty; in mode trigger it returns
\* true exactly when the list has a message of role user and the last such
\* message is matched by one of the patterns in force.
C21_ShouldExtractFollowsMode ==
    res.op = "shouldExtract" =>
        LET messages == res.messages
            patterns == OrElse(res.triggerPatterns, defaultPatterns)
            isLatestUser(k) == /\ messages[k].role = "user"
                               /\ \A j \in (k + 1)..Len(messages) : messages[j].role # "user"
        IN  /\ res.mode = "off" => res.ret = FALSE
            /\ res.mode = "auto" => res.ret = (messages # <<>>)
            /\ res.mode = "trigger" =>
                 res.ret = (\E k \in 1..Len(messages) :
                               /\ isLatestUser(k)
                               /\ \E n \in 1..Len(patterns) :
                                    regexTest(patterns[n], messages[k].content))

\* Trigger mode: the phrase stands in an earlier user message and in the last
\* message, which the assistant wrote; the latest user message has none, and
\* extraction did not start.
C21_Witness ==
    /\ res.op = "shouldExtract"
    /\ res.mode = "trigger"
    /\ res.triggerPatterns = None
    /\ Len(res.messages) = 2
    /\ res.messages[1] = [role |-> "user", content |-> tHi]
    /\ res.messages[2] = [role |-> "assistant", content |-> tRememberIt]
    /\ res.ret = FALSE

hanPhrases == {tJiZhu, tBieWangLe, tBuYaoWangJi}

\* C27: in trigger mode with the default patterns shouldExtract returns true
\* whenever the latest user message contains one of the phrases U+8BB0 U+4F4F,
\* U+522B U+5FD8 U+4E86 or U+4E0D U+8981 U+5FD8 U+8BB0, alone, between
\* whitespace or inside other text.
C27_ChineseTriggersFire ==
    (/\ res.op = "shouldExtract"
     /\ res.mode = "trigger"
     /\ res.triggerPatterns = None
     /\ lastUserMessage(res.messages) # None
     /\ \E phrase \in hanPhrases : includes(Get(lastUserMessage(res.messages)).content, phrase))
        => res.ret = TRUE


\* C22: retrieveMemoriesWithVector returns no entry that canonical storage,
\* when the call begins, holds as disabled or with an importance (50 when
\* unset) below the effective minimum importance.
C22_VectorRetrievalHonoursCanonicalFilter ==
    [][res'.op = "retrieveMemoriesWithVector" =>
        \A id \in returnedIds(res'.ret) :
            \A entry \in canonical(books, id) :
                /\ entry.enabled
                /\ importanceOf(entry) >= effectiveMinImportance(BookId, res'.params.options)]_vars


\* C23: every entry saved by autoExtractMemories carries the importance of its
\* candidate rescaled from 1-10 to 0-100 (ten times the candidate's), so that
\* the entry of a candidate of importance 10 passes the default minimum importance for injection.
C23_ExtractedImportanceRescaled ==
    res.op = "autoExtractMemories" =>
        \A i \in 1..Len(res.ret.saved) :
            \E k \in 1..Len(res.ret.extracted) :
                LET entry == res.ret.saved[i]
                    candidate == res.ret.extracted[k]
                IN  /\ entry.content = candidate.content
                    /\ importanceOf(entry) = candidate.importance * 10
                    /\ candidate.importance = 10 =>
                         importanceOf(entry) >= DEFAULT_BOOK_SETTINGS.minImportanceForInjection


\* The candidate tokens of a retrieval: options.keywords ?? extractKeywords(context).
candidateTokens(context, options) ==
    OrElse(options.keywords, extractKeywords(context))

\* A candidate token is a case-insensitive substring of one of the entry's
\* keywords or of its content.
tokenOccurs(entry, searchKeywords) ==
    \E sk \in Range(searchKeywords) :
        \/ /\ entry.keywords # None
           /\ \E k \in Range(Get(entry.keywords)) : includes(toLowerCase(k), toLowerCase(sk))
        \/ includes(toLowerCase(entry.content), toLowerCase(sk))

\* C24: with candidate tokens and keyword retrieval enabled, retrieveMemories
\* keeps, of the entries that pass the enabled and importance filter, exactly
\* those in whose keywords or content a candidate token occurs; without
\* candidate tokens it keeps every entry that passes the filter.  (What is
\* kept is returned, all of it unless the result is truncated.)
C24_KeywordOrContentMatch ==
    [][res'.op = "retrieveMemories" =>
        LET options == res'.params.options
            searchTokens == candidateTokens(res'.params.context, options)
            entries == books[BookId].entries
            passing == {i \in 1..Len(entries) :
                           passesFilter(entries[i], effectiveMinImportance(BookId, options))}
            kept == IF Len(searchTokens) > 0 /\ books[BookId].settings.useKeywordRetrieval
                    THEN {entries[i].id : i \in {j \in passing : tokenOccurs(entries[j], searchTokens)}}
                    ELSE {entries[i].id : i \in passing}
        IN  /\ returnedIds(res'.ret) \subseteq kept
            /\ ~res'.ret.truncated => returnedIds(res'.ret) = kept]_vars


\* The entries of the book that retrieveMemories has left after its two
\* filters, in book order (before sorting).
filteredEntries(bookId, context, options) ==
    LET book == books[bookId]
        searchKeywords == candidateTokens(context, options)
        Passes(entry) == passesFilter(entry, effectiveMinImportance(bookId, options))
        Matches(entry) ==
            IF entry.keywords # None /\ Len(Get(entry.keywords)) > 0
            THEN \E k \in Range(Get(entry.keywords)) :
                     \E sk \in Range(searchKeywords) :
                         includes(toLowerCase(k), toLowerCase(sk))
            ELSE \E sk \in Range(searchKeywords) :
                     includes(toLowerCase(entry.content), toLowerCase(sk))
        passing == SelectSeq(book.entries, Passes)
    IN  IF Len(searchKeywords) > 0 /\ book.settings.useKeywordRetrieval
        THEN SelectSeq(passing, Matches) ELSE passing

\* The key that sortBy selects, descending order meaning largest first.
sortKey(entry, sortBy) ==
    CASE sortBy = "importance" -> importanceOf(entry)
      [] sortBy = "recency" -> entry.lastAccessedAt
      [] sortBy = "accessCount" -> entry.accessCount

\* C25: retrieveMemories returns the first maxMemories of the filtered entries
\* in descending order of the sortBy key: the result is ordered, every
\* filtered entry left out has a key no larger than every returned one, the
\* result has min(maxMemories, number of filtered entries) elements, and
\* truncated tells whether the filtered entries outnumber maxMemories.
C25_SortThenTruncate ==
    [][res'.op = "retrieveMemories" =>
        LET options == res'.params.options
            book == books[BookId]
            maxMemories == OrElse(options.maxMemories, book.settings.maxMemoriesPerRequest)
            sortBy == OrElse(options.sortBy, book.settings.sortBy)
            filtered == filteredEntries(BookId, res'.params.context, options)
            filteredIds == {filtered[i].id : i \in 1..Len(filtered)}
            memories == res'.ret.memories
            keyOfId(id) == sortKey(CHOOSE e \in canonical(books, id) : TRUE, sortBy)
        IN  /\ returnedIds(res'.ret) \subseteq filteredIds
            /\ Len(memories) = IF Len(filtered) < maxMemories THEN Len(filtered) ELSE maxMemories
            /\ Cardinality(returnedIds(res'.ret)) = Len(memories)
            /\ \A i, j \in 1..Len(memories) :
                   i < j => keyOfId(memories[i].id) >= keyOfId(memories[j].id)
            /\ \A left \in filteredIds \ returnedIds(res'.ret) :
                   \A taken \in returnedIds(res'.ret) : keyOfId(left) <= keyOfId(taken)
            /\ res'.ret.truncated = (Len(filtered) > maxMemories)]_vars

\* Two entries passed the filters, one was asked for, and the one returned is
\* the later of the two in book order: it was sorted to the front before the
\* cut, and the cut is reported.
C25_Witness ==
    /\ res.op = "retrieveMemories"
    /\ res.ret.truncated
    /\ Len(res.ret.memories) = 1
    /\ Len(books[BookId].entries) = 2
    /\ res.ret.memories[1].id = books[BookId].entries[2].id
    /\ \A i \in 1..2 : books[BookId].entries[i].enabled


\* ---------------------------------------------------------------------------
\* Trigger-word extraction of the store (store.ts: autoExtractMemories)
\* ---------------------------------------------------------------------------

MaxTriggerOps == 2
MaxTriggerMessages == 2

containsExtractionTrigger(text, triggers) ==
    \E k \in 1..Len(triggers) : includes(toLowerCase(text), toLowerCase(triggers[k]))

\* extractPotentialMemories for messages whose content is a string: the
\* messages that hold a trigger, trimmed, with their 0-based index.
extractPotentialMemories(messages, triggers) ==
    LET hit == {i \in 1..Len(messages) :
                   /\ messages[i].content # <<>>
                   /\ containsExtractionTrigger(messages[i].content, triggers)}
        nth(k) == CHOOSE i \in hit : Cardinality({j \in hit : j < i}) = k - 1
    IN  [k \in 1..Cardinality(hit) |->
            [role |-> messages[nth(k)].role,
             content |-> trim(messages[nth(k)].content),
             index |-> nth(k) - 1]]

\* `msg-${potential.index}`
messageSource(i) ==
    <<"msg-", i>>

\* The loop of autoExtractMemories over the potential memories.  snapshot is
\* the book as loaded before the loop; st.books is the storage, which
\* addMemory reloads and saves for every entry it adds.
RECURSIVE extractLoop(_, _, _, _)
extractLoop(st, snapshot, bookId, potentials) ==
    IF potentials = <<>> THEN st
    ELSE LET potential == Head(potentials)
             exists == \E i \in 1..Len(snapshot.entries) :
                          \/ snapshot.entries[i].content = potential.content
                          \/ snapshot.entries[i].source = Some(messageSource(potential.index))
             added == addMemoryTo(st.books, st.nextId, bookId,
                          [content |-> potential.content,
                           type |-> Some("auto"),
                           importance |-> Some(60),
                           source |-> Some(messageSource(potential.index)),
                           category |-> Some(IF potential.role = "user"
                                             THEN "user-stated" ELSE "ai-noted")]
                              @@ noParams)
         IN  IF exists THEN extractLoop(st, snapshot, bookId, Tail(potentials))
             ELSE extractLoop([books |-> added.books, nextId |-> st.nextId + 1,
                               addedMemories |-> IF added.ret = None THEN st.addedMemories
                                                 ELSE Append(st.addedMemories, Get(added.ret))],
                              snapshot, bookId, Tail(potentials))

\* autoExtractMemories(bookId, messages, triggers) of the store.
autoExtractMemoriesByTrigger(bookId, messages, triggers) ==
    IF loadMemoryBook(bookId) = None
    THEN [books |-> books, nextId |-> nextId, addedMemories |-> <<>>]
    ELSE extractLoop([books |-> books, nextId |-> nextId, addedMemories |-> <<>>],
                     Get(loadMemoryBook(bookId)), bookId,
                     extractPotentialMemories(messages, triggers))

sCatSpace == <<"c", "a", "t", " ">>

TriggerMessages ==
    [role : {"user", "assistant"}, content : {sCat, sCatSpace, sCatBang, sTea}]

TriggerMessageLists ==
    UNION {[1..n -> TriggerMessages] : n \in 0..MaxTriggerMessages}

Triggers == <<sCat>>

AutoExtractByTrigger ==
    \E messages \in TriggerMessageLists :
        /\ now <= MaxTriggerOps
        /\ \E r \in {autoExtractMemoriesByTrigger(BookId, messages, Triggers)} :
            /\ books' = r.books
            /\ nextId' = r.nextId
            /\ res' = [op |-> "autoExtractMemories", messages |-> messages,
                       ret |-> r.addedMemories]
        /\ now' = now + 1
        /\ UNCHANGED <<index, provider, providerCache, indexCache, initPromise, inflight>>

NextTrigger ==
    AutoExtractByTrigger

SpecTrigger ==
    InitStore /\ [][NextTrigger]_vars

\* C26: on a book that started empty, after any sequence of calls of the
\* store's autoExtractMemories no two entries of the book have the same
\* content.
C26_NoDuplicateContent ==
    \A i, j \in 1..Len(books[BookId].entries) :
        i # j => books[BookId].entries[i].content # books[BookId].entries[j].content


\* ---------------------------------------------------------------------------
\* The cache of open index handles (memory-index.ts: indexCache)
\* ---------------------------------------------------------------------------

MaxHandleOps == 4

HandleBookIds == {BookId, BookId + 1}

\* new MemoryVectorIndex(bookId): serial stands for the identity of the object.
newHandle(bookId, serial) ==
    [bookId |-> bookId, serial |-> serial]

\* getMemoryIndex as a function of the cache: the cache afterwards and the
\* handle returned.  openFails: the constructor throws (the database cannot
\* be opened), and the call throws before anything is cached.
getMemoryIndexHandle(cache, bookId, serial, openFails) ==
    IF bookId \in DOMAIN cache
    THEN [cache |-> cache, threw |-> FALSE, ret |-> Some(cache[bookId])]
    ELSE IF openFails
    THEN [cache |-> cache, threw |-> TRUE, ret |-> None]
    ELSE [cache |-> [b \in DOMAIN cache \cup {bookId} |->
                        IF b = bookId THEN newHandle(bookId, serial) ELSE cache[b]],
          threw |-> FALSE,
          ret   |-> Some(newHandle(bookId, serial))]

\* The handles a cache holds (the values of the Map).
cachedHandles(cache) ==
    {cache[b] : b \in DOMAIN cache}

\* closeMemoryIndex without its indexCache.delete.
closeMemoryIndexKeepingEntry(cache, closed, bookId) ==
    IF bookId \in DOMAIN cache
    THEN [cache |-> cache, closed |-> closed \cup {cache[bookId]}]
    ELSE [cache |-> cache, closed |-> closed]

\* closeMemoryIndex: the cache afterwards and the handles closed so far.
closeMemoryIndex(cache, closed, bookId) ==
    IF bookId \in DOMAIN cache
    THEN [cache  |-> [b \in DOMAIN cache \ {bookId} |-> cache[b]],
          closed |-> closed \cup {cache[bookId]}]
    ELSE [cache |-> cache, closed |-> closed]

\* closeAllMemoryIndexes: every cached handle is closed and deleted.
closeAllMemoryIndexes(cache, closed) ==
    [cache |-> <<>>, closed |-> closed \cup cachedHandles(cache)]

InitHandles ==
    /\ books = <<>>
    /\ index = <<>>
    /\ provider = None
    /\ providerCache = <<>>
    /\ indexCache = <<>>
    /\ initPromise = None
    /\ inflight = <<>>
    /\ now = 1
    /\ nextId = 1
    /\ res = [op |-> "init", closed |-> {}]

GetMemoryIndex ==
    \E bookId \in HandleBookIds, openFails \in BOOLEAN :
        /\ now <= MaxHandleOps
        /\ \E r \in {getMemoryIndexHandle(indexCache, bookId, nextId, openFails)} :
            /\ indexCache' = r.cache
            /\ res' = [op |-> "getMemoryIndex", bookId |-> bookId, threw |-> r.threw,
                       ret |-> r.ret, closed |-> res.closed]
        /\ nextId' = nextId + 1
        /\ now' = now + 1
        /\ UNCHANGED <<books, index, provider, providerCache, initPromise, inflight>>

CloseMemoryIndex ==
    \E bookId \in HandleBookIds :
        /\ now <= MaxHandleOps
        /\ \E r \in {closeMemoryIndex(indexCache, res.closed, bookId)} :
            /\ indexCache' = r.cache
            /\ res' = [op |-> "closeMemoryIndex", bookId |-> bookId, closed |-> r.closed]
        /\ now' = now + 1
        /\ UNCHANGED <<books, index, provider, providerCache, initPromise, inflight, nextId>>

CloseAllMemoryIndexes ==
    /\ now <= MaxHandleOps
    /\ \E r \in {closeAllMemoryIndexes(indexCache, res.closed)} :
        /\ indexCache' = r.cache
        /\ res' = [op |-> "closeAllMemoryIndexes", closed |-> r.closed]
    /\ now' = now + 1
    /\ UNCHANGED <<books, index, provider, providerCache, initPromise, inflight, nextId>>

NextHandles ==
    \/ GetMemoryIndex
    \/ CloseMemoryIndex
    \/ CloseAllMemoryIndexes

SpecHandles ==
    InitHandles /\ [][NextHandles]_vars

\* C28: the cache never holds a closed handle; getMemoryIndex for a cached
\* book returns the cached handle and leaves the cache alone, and for a book
\* that is not cached it opens a handle that was never handed out before and
\* caches it; closeMemoryIndex closes the book's handle and removes it from
\* the cache; closeAllMemoryIndexes closes every cached handle and empties
\* the cache.
C28_HandleCache ==
    [][/\ \A b \in DOMAIN indexCache' :
            /\ indexCache'[b] \notin res'.closed
            /\ indexCache'[b].bookId = b
       /\ (res'.op = "getMemoryIndex" /\ ~res'.threw) =>
            IF res'.bookId \in DOMAIN indexCache
            THEN /\ res'.ret = Some(indexCache[res'.bookId])
                 /\ indexCache' = indexCache
            ELSE /\ Get(res'.ret) \notin res.closed \cup cachedHandles(indexCache)
                 /\ Get(res'.ret).serial >= nextId
                 /\ res'.bookId \in DOMAIN indexCache'
                 /\ indexCache'[res'.bookId] = Get(res'.ret)
                 /\ \A b \in DOMAIN indexCache : indexCache'[b] = indexCache[b]
       /\ res'.op = "closeMemoryIndex" =>
            /\ res'.bookId \notin DOMAIN indexCache'
            /\ res'.bookId \in DOMAIN indexCache => indexCache[res'.bookId] \in res'.closed
            /\ \A b \in DOMAIN indexCache \ {res'.bookId} :
                   b \in DOMAIN indexCache' /\ indexCache'[b] = indexCache[b]
       /\ res'.op = "closeAllMemoryIndexes" =>
            /\ indexCache' = <<>>
            /\ cachedHandles(indexCache) \subseteq res'.closed]_vars

\* A book's handle was closed, and the next getMemoryIndex for the book
\* returned and cached a fresh one.
C28_Witness ==
    /\ res.op = "getMemoryIndex"
    /\ ~res.threw
    /\ indexCache[res.bookId] = Get(res.ret)
    /\ \E h \in res.closed : h.bookId = res.bookId /\ h.serial < Get(res.ret).serial


\* ---------------------------------------------------------------------------
\* retrieveMemoriesWithVector as the two steps its await divides it into
\* (store.ts), interleaved with the synchronous writes of the store
\* ---------------------------------------------------------------------------

MaxRaceOps == 3

MaxInflight == 1

\* retrieveMemoriesWithVector up to `await vectorStore.search`: the locals the
\* suspended call keeps, book being the object loadMemoryBook returned.
retrieveSuspended(book, context, options) ==
    [op |-> "retrieveMemoriesWithVector", book |-> book, context |-> context,
     options |-> options]

\* retrieveMemoriesWithVector from the resolution of the search on: filter,
\* slice, access bookkeeping on the book loaded before the await, save.
retrieveAfterSearch(bs, call, results, t) ==
    LET book == call.book
        maxMemories == OrElse(call.options.maxMemories,
                              book.settings.maxMemoriesPerRequest)
        minImportance == OrElse(call.options.minImportance,
                                book.settings.minImportanceForInjection)
        useHybrid == OrElse(call.options.useHybrid, TRUE)
        Passes(r) == passesFilter(r.entry, minImportance)
        filtered == SelectSeq(results, Passes)
        picked == slice0(filtered, maxMemories)
        memories == [i \in 1..Len(picked) |-> picked[i].entry]
        scores == [i \in 1..Len(picked) |-> picked[i].score]
        entries2 == bumpAccess(book.entries, memories, t)
    IN  [books |-> saveMemoryBook(bs, [book EXCEPT !.entries = entries2], t),
         ret |-> [memories |-> memories, totalMemories |-> Len(book.entries),
                  truncated |-> Len(filtered) > maxMemories,
                  method |-> IF useHybrid THEN "hybrid" ELSE "vector",
                  vectorSearchUsed |-> TRUE, scores |-> scores]]

\* The search the suspended call awaits, run on the index as it is when the
\* embedding of the context arrives.
awaitedSearch(call, embedFails, rank) ==
    LET book == call.book
        maxMemories == OrElse(call.options.maxMemories,
                              book.settings.maxMemoriesPerRequest)
    IN  search(index, book.id, call.context,
               [maxResults |-> Some(maxMemories * 2),
                minScore |-> Some(OrElse(call.options.minScore, 3000)),
                useHybrid |-> Some(OrElse(call.options.useHybrid, TRUE))],
               embedFails, rank)

\* The keyword fallback after the catch: retrieveMemories reloads the book.
retrieveAfterCatch(call) ==
    LET book == call.book
        fallback == retrieveMemories(book.id, call.context,
                        [maxMemories |-> Some(OrElse(call.options.maxMemories,
                                                book.settings.maxMemoriesPerRequest)),
                         minImportance |-> Some(OrElse(call.options.minImportance,
                                                book.settings.minImportanceForInjection))]
                            @@ noOptions)
    IN  [books |-> fallback.books,
         ret |-> fallback.ret @@ [vectorSearchUsed |-> FALSE]]

\* The call runs to its await and is suspended there.
RetrieveMemoriesWithVectorBegin ==
    \E context \in VecContexts, options \in VecOptions :
        /\ now <= MaxRaceOps
        /\ Len(inflight) < MaxInflight
        /\ loadMemoryBook(BookId) # None
        /\ isAvailable
        /\ inflight' = Append(inflight,
                              retrieveSuspended(Get(loadMemoryBook(BookId)), context,
                                                options))
        /\ now' = now + 1
        /\ res' = [op |-> "retrieveMemoriesWithVector:await"]
        /\ UNCHANGED <<books, index, provider, providerCache, indexCache, initPromise,
                       nextId>>

\* The search settles and the suspended call runs to its end.
RetrieveMemoriesWithVectorResume ==
    /\ inflight # <<>>
    /\ \E embedFails \in BOOLEAN, indexFails \in BOOLEAN,
          rank \in VecRanks(index[BookId]) :
           /\ ~(embedFails /\ indexFails)
           /\ \E r \in {IF indexFails THEN retrieveAfterCatch(Head(inflight))
                        ELSE retrieveAfterSearch(books, Head(inflight),
                                 awaitedSearch(Head(inflight), embedFails, rank), now)} :
                  /\ books' = r.books
                  /\ res' = [op |-> "retrieveMemoriesWithVector", call |-> Head(inflight),
                             embedFails |-> embedFails, indexFails |-> indexFails,
                             ret |-> r.ret]
           /\ inflight' = Tail(inflight)
           /\ now' = now + 1
           /\ UNCHANGED <<index, provider, providerCache, indexCache, initPromise, nextId>>

NextRace ==
    \/ AddMemoryWithVector
    \/ AddMemory(MaxRaceOps)
    \/ UpdateMemory(MaxRaceOps)
    \/ DeleteMemory(MaxRaceOps)
    \/ RetrieveMemoriesWithVectorBegin
    \/ RetrieveMemoriesWithVectorResume

SpecRace == InitVec /\ [][NextRace]_vars

\* A book without the bookkeeping a retrieval writes: updatedAt of the book,
\* lastAccessedAt and accessCount of its entries.
withoutAccessBookkeeping(book) ==
    [book EXCEPT !.updatedAt = 0,
                 !.entries = [i \in 1..Len(book.entries) |->
                                 [book.entries[i] EXCEPT !.lastAccessedAt = 0,
                                                         !.accessCount = 0]]]

\* C29: when a suspended retrieveMemoriesWithVector completes, canonical
\* storage differs from what it was just before the completion only in the
\* access bookkeeping: every entry added, updated or deleted while the call
\* was suspended is still added, updated or deleted.
C29_NoLostCanonicalWrite ==
    [][res'.op = "retrieveMemoriesWithVector" =>
          /\ DOMAIN books' = DOMAIN books
          /\ \A b \in DOMAIN books :
                 /\ withoutAccessBookkeeping(books'[b]) = withoutAccessBookkeeping(books[b])
                 /\ \A i \in 1..Len(books[b].entries) :
                        books'[b].entries[i].accessCount >= books[b].entries[i].accessCount
      ]_vars


\* ---------------------------------------------------------------------------
\* SillyTavernEmbeddingManager.initialize and its concurrent callers
\* (embedding-manager.ts)
\* ---------------------------------------------------------------------------

MaxManagerOps == 4

pendingPromise == [state |-> "pending", reason |-> None]

fulfilledPromise == [state |-> "fulfilled", reason |-> None]

rejectedPromise(message) == [state |-> "rejected", reason |-> Some(message)]

\* initialize without its `if (this.initPromise) return this.initPromise`.
initializeIgnoringInitPromise(current, promise) ==
    IF current # None THEN "return" ELSE "start"

\* initialize up to its return: "return" when the provider is set, "share"
\* when it returns the stored promise, "start" when it begins a resolution
\* and stores its promise.
initialize(current, promise) ==
    IF current # None THEN "return"
    ELSE IF promise # None THEN "share"
    ELSE "start"

\* The calls of the manager that reach initialize: initialize itself, embed,
\* and embedBatch of a list that is not empty.
ManagerCalls ==
    { [op |-> "initialize", texts |-> <<>>],
      [op |-> "embed", texts |-> <<sCat>>],
      [op |-> "embedBatch", texts |-> <<sCat>>],
      [op |-> "embedBatch", texts |-> <<>>] }

reachesInitialize(call) ==
    ~(call.op = "embedBatch" /\ Len(call.texts) = 0)

\* What a caller sees of a settled initialize promise.
observation(caller, call, how, waited, promise) ==
    [caller |-> caller, op |-> call.op, how |-> how, waited |-> waited,
     state |-> promise.state, reason |-> promise.reason]

suspendedCaller(caller, call, how) ==
    [kind |-> "caller", caller |-> caller, call |-> call, how |-> how]

pendingResolution == [kind |-> "getEmbeddingProvider"]

isCaller(task) == task.kind = "caller"

isResolution(task) == task.kind = "getEmbeddingProvider"

\* One manager, constructed with a configuration, in an environment.
InitManager ==
    /\ books = <<>>
    /\ index = <<>>
    /\ provider = None
    /\ providerCache = <<>>
    /\ indexCache = <<>>
    /\ initPromise = None
    /\ inflight = <<>>
    /\ now = 1
    /\ nextId = 1
    /\ \E config \in EmbeddingConfigs, env \in Environments :
           res = [op |-> "createEmbeddingManager", config |-> config, env |-> env,
                  started |-> 0, observed |-> {}]

\* A call of initialize, embed or embedBatch runs until it returns or is
\* suspended on the promise of initialize.
ManagerCall ==
    \E call \in ManagerCalls :
        /\ now <= MaxManagerOps
        /\ \E how \in {IF reachesInitialize(call) THEN initialize(provider, initPromise)
                       ELSE "none"} :
            /\ initPromise' = IF how = "start" THEN Some(pendingPromise) ELSE initPromise
            /\ inflight' =
                   IF how = "start"
                   THEN inflight \o <<pendingResolution, suspendedCaller(nextId, call, how)>>
                   ELSE IF how = "share" /\ Get(initPromise).state = "pending"
                   THEN Append(inflight, suspendedCaller(nextId, call, how))
                   ELSE inflight
            /\ res' = [res EXCEPT
                   !.op = call.op,
                   !.started = IF how = "start" THEN @ + 1 ELSE @,
                   !.observed =
                       IF how = "return"
                       THEN @ \cup {observation(nextId, call, how, FALSE, fulfilledPromise)}
                       ELSE IF how = "share" /\ Get(initPromise).state # "pending"
                       THEN @ \cup {observation(nextId, call, how, FALSE, Get(initPromise))}
                       ELSE @]
        /\ nextId' = nextId + 1
        /\ now' = now + 1
        /\ UNCHANGED <<books, index, provider, providerCache, indexCache>>

\* The getEmbeddingProvider a resolution awaits settles: the provider is set
\* or the error is rethrown, the promise settles, and the callers suspended
\* on it continue.
SettleInitialize ==
    /\ \E i \in 1..Len(inflight) : isResolution(inflight[i])
    /\ \E r \in {getEmbeddingProvider(providerCache, res.config, res.env, nextId)} :
        \E settled \in {IF r.ret.threw THEN rejectedPromise(r.ret.message)
                        ELSE fulfilledPromise} :
            /\ providerCache' = r.cache
            /\ provider' = IF r.ret.threw THEN provider ELSE Some(r.ret.provider.model)
            /\ initPromise' = Some(settled)
            /\ res' = [res EXCEPT
                   !.op = "initialize:settled",
                   !.observed = @ \cup
                       {observation(inflight[i].caller, inflight[i].call,
                                    inflight[i].how, TRUE, settled) :
                            i \in {j \in 1..Len(inflight) : isCaller(inflight[j])}}]
    /\ inflight' = <<>>
    /\ nextId' = nextId + 1
    /\ now' = now + 1
    /\ UNCHANGED <<books, index, indexCache>>

NextManager ==
    \/ ManagerCall
    \/ SettleInitialize

SpecManager ==
    InitManager /\ [][NextManager]_vars

\* C30: on one manager, whatever the order of the initialize, embed and
\* embedBatch calls and of the settling of the resolution, getEmbeddingProvider
\* is started at most once; every caller that got past initialize saw the
\* outcome of that one resolution (fulfilled, or rejected with its error);
\* callers are suspended only while it is pending; and isAvailable() holds
\* exactly when it was fulfilled.
C30_InitializeSingleFlight ==
    /\ res.started <= 1
    /\ (res.started = 1) <=> (initPromise # None)
    /\ isAvailable <=> (initPromise # None /\ Get(initPromise).state = "fulfilled")
    /\ inflight # <<>> <=> (initPromise # None /\ Get(initPromise).state = "pending")
    /\ \A o \in res.observed :
           /\ initPromise # None
           /\ o.state = Get(initPromise).state
           /\ o.reason = Get(initPromise).reason

\* Three callers of one resolution that failed: the one that started it, one
\* that was handed the pending promise, and one that called after the
\* rejection and was handed the rejected promise.
C30_Witness ==
    /\ res.started = 1
    /\ ~isAvailable
    /\ \E a \in res.observed, b \in res.observed, c \in res.observed :
           /\ a.how = "start" /\ a.waited
           /\ b.how = "share" /\ b.waited /\ b.op # a.op
           /\ c.how = "share" /\ ~c.waited /\ c.state = "rejected"

====
